---- MODULE Spec2Model ----
(***************************************************************************)
(* The query-answering pipeline of src/core/financial_agent.py: the        *)
(* LangGraph state machine classify -> (decompose) -> execute_searches ->  *)
(* synthesize built by FinancialAgent._build_graph, the four node          *)
(* functions, and process_query around them.                               *)
(*                                                                         *)
(* Text is a sequence of one-character strings, so that strip(), lower(),  *)
(* startswith(), replace(), slicing, len(), re.search() and json.loads()   *)
(* are computed on the characters as Python computes them.  The backtick   *)
(* cannot be written in a TLA+ string and is the atom BT.  A Python value  *)
(* is a record tagged by its type (field t).                               *)
(*                                                                         *)
(* Outside the modelled alphabet: the backslash (JSON string escapes) and  *)
(* non-ASCII letters.                                                      *)
(***************************************************************************)
EXTENDS Integers, Sequences, FiniteSets, TLC

\* ------------------------------------------------------------------ text

\* The backtick character.
BT == "bt"

\* The quotation mark.
DQ == "\""

\* What At(s, i) gives beyond the end of s (Python's s[i:i+1] == '').
EndOfText == ""

\* Characters str.strip() removes.
PyWhiteSpace == {" ", "\n", "\t", "\r"}

\* Whitespace of the JSON grammar (json.decoder.WHITESPACE).
JsonWS == {" ", "\n", "\t", "\r"}

\* Characters json's strict mode refuses inside a string literal.
ControlChars == {"\n", "\t", "\r"}

Digits == {"0", "1", "2", "3", "4", "5", "6", "7", "8", "9"}

At(s, i) == IF i >= 1 /\ i <= Len(s) THEN s[i] ELSE EndOfText

\* First position >= i of s that holds a character of C; Len(s) + 1 if none.
FirstIn(s, i, C) ==
    IF i > Len(s) THEN Len(s) + 1
    ELSE CHOOSE j \in i..(Len(s) + 1) :
            /\ j = Len(s) + 1 \/ s[j] \in C
            /\ \A m \in i..(j - 1) : s[m] \notin C

\* First position >= i of s that holds a character outside C; Len(s) + 1 if none.
FirstNotIn(s, i, C) ==
    IF i > Len(s) THEN Len(s) + 1
    ELSE CHOOSE j \in i..(Len(s) + 1) :
            /\ j = Len(s) + 1 \/ s[j] \notin C
            /\ \A m \in i..(j - 1) : s[m] \in C

\* How many characters of C end s.
TrailingIn(s, C) ==
    CHOOSE k \in 0..Len(s) :
        /\ k = Len(s) \/ s[Len(s) - k] \notin C
        /\ \A m \in (Len(s) - k + 1)..Len(s) : s[m] \in C

\* s[i:] starts with p  (1-based i).
Matches(s, i, p) == i >= 1 /\ i + Len(p) - 1 <= Len(s) /\ SubSeq(s, i, i + Len(p) - 1) = p

\* str.startswith
StartsWith(s, p) == Matches(s, 1, p)

\* s[:n]
Prefix(s, n) == SubSeq(s, 1, IF Len(s) < n THEN Len(s) ELSE n)

\* str.strip()
Strip(s) == SubSeq(s, FirstNotIn(s, 1, PyWhiteSpace), Len(s) - TrailingIn(s, PyWhiteSpace))

\* str.find(p, i): the first position >= i where p occurs in s; 0 if none.
Find(s, p, i) ==
    IF \E j \in i..Len(s) : Matches(s, j, p)
    THEN CHOOSE j \in i..Len(s) : Matches(s, j, p) /\ \A m \in i..(j - 1) : ~Matches(s, m, p)
    ELSE 0

LowerChar(c) ==
    CASE c = "A" -> "a" [] c = "B" -> "b" [] c = "C" -> "c" [] c = "D" -> "d"
      [] c = "E" -> "e" [] c = "F" -> "f" [] c = "G" -> "g" [] c = "H" -> "h"
      [] c = "I" -> "i" [] c = "J" -> "j" [] c = "K" -> "k" [] c = "L" -> "l"
      [] c = "M" -> "m" [] c = "N" -> "n" [] c = "O" -> "o" [] c = "P" -> "p"
      [] c = "Q" -> "q" [] c = "R" -> "r" [] c = "S" -> "s" [] c = "T" -> "t"
      [] c = "U" -> "u" [] c = "V" -> "v" [] c = "W" -> "w" [] c = "X" -> "x"
      [] c = "Y" -> "y" [] c = "Z" -> "z" [] OTHER -> c

\* str.lower()
Lower(s) == [i \in 1..Len(s) |-> LowerChar(s[i])]

\* str.replace(p, ''): the non-overlapping occurrences of p, left to right.
RECURSIVE Remove(_, _)
Remove(s, p) ==
    LET i == Find(s, p, 1)
    IN  IF i = 0 THEN s
        ELSE SubSeq(s, 1, i - 1) \o Remove(SubSeq(s, i + Len(p), Len(s)), p)

\* ---------------------------------------------------------- Python values

PyNone == [t |-> "none"]

PyBool(b) == [t |-> "bool", b |-> b]

\* An int, kept as its decimal text (Python's ints are unbounded).
PyInt(lit) == [t |-> "int", lit |-> lit]

\* A float, kept as the text of its literal (1.5, 1e3, NaN, Infinity).
PyFloat(lit) == [t |-> "float", lit |-> lit]

PyStr(s) == [t |-> "str", s |-> s]

PyList(xs) == [t |-> "list", xs |-> xs]

\* A dict: its items in insertion order, kv[i] = [k |-> key, v |-> value].
PyDict(kv) == [t |-> "dict", kv |-> kv]

\* list, dict: `d[key] = ...` raises TypeError: unhashable type.
Hashable(v) == v.t \notin {"list", "dict"}

\* Equality of dict keys: True == 1 and False == 0 in Python.
KeyNum(v) == IF v.t = "int" THEN v.lit ELSE IF v.b THEN <<"1">> ELSE <<"0">>

KeyEq(a, b) ==
    IF a.t = b.t THEN a = b
    ELSE a.t \in {"bool", "int"} /\ b.t \in {"bool", "int"} /\ KeyNum(a) = KeyNum(b)

HasKey(kv, k) == \E i \in 1..Len(kv) : KeyEq(kv[i].k, k)

\* d[k] = v: an existing key keeps its place and its first spelling.
DictSet(kv, k, v) ==
    IF HasKey(kv, k)
    THEN [i \in 1..Len(kv) |-> IF KeyEq(kv[i].k, k) THEN [k |-> kv[i].k, v |-> v] ELSE kv[i]]
    ELSE Append(kv, [k |-> k, v |-> v])

\* dict.get(k, default)
DictGet(kv, k, default) ==
    IF HasKey(kv, k)
    THEN kv[CHOOSE i \in 1..Len(kv) : KeyEq(kv[i].k, k)].v
    ELSE default

\* len(v) is defined (str, list, dict); len of anything else raises TypeError.
Sized(v) == v.t \in {"str", "list", "dict"}

PyLen(v) ==
    CASE v.t = "str" -> Len(v.s)
      [] v.t = "list" -> Len(v.xs)
      [] v.t = "dict" -> Len(v.kv)

\* `for x in v`: the elements of a list, the keys of a dict, the characters
\* of a str.  Iterable(v) is false where the for statement raises TypeError.
Iterable(v) == v.t \in {"str", "list", "dict"}

Elements(v) ==
    CASE v.t = "list" -> v.xs
      [] v.t = "dict" -> [i \in 1..Len(v.kv) |-> v.kv[i].k]
      [] v.t = "str" -> [i \in 1..Len(v.s) |-> PyStr(<<v.s[i]>>)]

\* ------------------------------------------------------------ json.loads

ParseFail == [ok |-> FALSE, v |-> PyNone, i |-> 0]

ParseOk(v, i) == [ok |-> TRUE, v |-> v, i |-> i]

\* WHITESPACE.match(s, i).end()
SkipWS(s, i) == FirstNotIn(s, i, JsonWS)

\* First position >= i that holds no digit.
DigitsEnd(s, i) == FirstNotIn(s, i, Digits)

\* py_scanstring at the opening quote s[i]: to the next quote; a control
\* character inside the literal is an error.
ScanString(s, i) ==
    LET j == FirstIn(s, i + 1, {DQ})
    IN  IF j > Len(s) THEN ParseFail
        ELSE IF \E m \in (i + 1)..(j - 1) : s[m] \in ControlChars THEN ParseFail
        ELSE ParseOk(PyStr(SubSeq(s, i + 1, j - 1)), j + 1)

\* NUMBER_RE = (-?(?:0|[1-9]\d*))(\.\d+)?([eE][-+]?\d+)? , then NaN,
\* Infinity and -Infinity, which json.loads accepts.
ScanNumber(s, i) ==
    LET d0 == IF At(s, i) = "-" THEN i + 1 ELSE i
        iend == IF At(s, d0) = "0" THEN d0 + 1 ELSE DigitsEnd(s, d0)
        fend == IF At(s, iend) = "." /\ At(s, iend + 1) \in Digits
                THEN DigitsEnd(s, iend + 1) ELSE iend
        e0 == IF At(s, fend + 1) \in {"+", "-"} THEN fend + 2 ELSE fend + 1
        eend == IF At(s, fend) \in {"e", "E"} /\ At(s, e0) \in Digits
                THEN DigitsEnd(s, e0) ELSE fend
    IN  IF At(s, d0) \in Digits
        THEN IF eend = iend
             THEN ParseOk(PyInt(IF SubSeq(s, i, iend - 1) = <<"-", "0">> THEN <<"0">>
                                ELSE SubSeq(s, i, iend - 1)), iend)
             ELSE ParseOk(PyFloat(SubSeq(s, i, eend - 1)), eend)
        ELSE IF Matches(s, i, <<"N","a","N">>) THEN ParseOk(PyFloat(<<"N","a","N">>), i + 3)
        ELSE IF Matches(s, i, <<"I","n","f","i","n","i","t","y">>) THEN ParseOk(PyFloat(<<"I","n","f","i","n","i","t","y">>), i + 8)
        ELSE IF Matches(s, i, <<"-","I","n","f","i","n","i","t","y">>) THEN ParseOk(PyFloat(<<"-","I","n","f","i","n","i","t","y">>), i + 9)
        ELSE ParseFail

RECURSIVE ScanOnce(_, _)
RECURSIVE ScanArrayItems(_, _, _)
RECURSIVE ScanObjectItems(_, _, _)

\* JSONArray after the first value's start i: value (, value)* ]
ScanArrayItems(s, i, acc) ==
    LET r == ScanOnce(s, i)
        j == SkipWS(s, r.i)
    IN  IF ~r.ok THEN ParseFail
        ELSE IF At(s, j) = "]" THEN ParseOk(PyList(Append(acc, r.v)), j + 1)
        ELSE IF At(s, j) = "," THEN ScanArrayItems(s, SkipWS(s, j + 1), Append(acc, r.v))
        ELSE ParseFail

\* JSONObject at the opening quote i of a key: "key" : value (, "key" : value)* }
ScanObjectItems(s, i, acc) ==
    LET k == ScanString(s, i)
        c == SkipWS(s, k.i)
        r == ScanOnce(s, SkipWS(s, c + 1))
        j == SkipWS(s, r.i)
        n == SkipWS(s, j + 1)
    IN  IF ~k.ok \/ At(s, c) # ":" THEN ParseFail
        ELSE IF ~r.ok THEN ParseFail
        ELSE IF At(s, j) = "}" THEN ParseOk(PyDict(DictSet(acc, k.v, r.v)), j + 1)
        ELSE IF At(s, j) = "," /\ At(s, n) = DQ THEN ScanObjectItems(s, n, DictSet(acc, k.v, r.v))
        ELSE ParseFail

\* scanner.py_make_scanner._scan_once at position i.
ScanOnce(s, i) ==
    LET c == At(s, i)
        j == SkipWS(s, i + 1)
    IN  CASE c = DQ -> ScanString(s, i)
          [] c = "{" -> IF At(s, j) = "}" THEN ParseOk(PyDict(<<>>), j + 1)
                        ELSE IF At(s, j) = DQ THEN ScanObjectItems(s, j, <<>>)
                        ELSE ParseFail
          [] c = "[" -> IF At(s, j) = "]" THEN ParseOk(PyList(<<>>), j + 1)
                        ELSE ScanArrayItems(s, j, <<>>)
          [] c = "n" /\ Matches(s, i, <<"n","u","l","l">>) -> ParseOk(PyNone, i + 4)
          [] c = "t" /\ Matches(s, i, <<"t","r","u","e">>) -> ParseOk(PyBool(TRUE), i + 4)
          [] c = "f" /\ Matches(s, i, <<"f","a","l","s","e">>) -> ParseOk(PyBool(FALSE), i + 5)
          [] OTHER -> ScanNumber(s, i)

\* json.loads(s): one value between optional whitespace, nothing after it;
\* ok = FALSE is json.JSONDecodeError.
JsonLoads(s) ==
    LET r == ScanOnce(s, SkipWS(s, 1))
    IN  IF r.ok /\ SkipWS(s, r.i) = Len(s) + 1 THEN r ELSE ParseFail

\* --------------------------------------------------------------- literals

FenceJson == <<BT, BT, BT, "j", "s", "o", "n">>

Fence == <<BT, BT, BT>>

S_simple == <<"s","i","m","p","l","e">>

S_complex == <<"c","o","m","p","l","e","x">>

S_answer == <<"a","n","s","w","e","r">>

S_reasoning == <<"r","e","a","s","o","n","i","n","g">>

\* The exception's text str(e), abstracted to the name of its class.
ExcText(exc) ==
    CASE exc = "ProviderError" -> <<"P","r","o","v","i","d","e","r","E","r","r","o","r">>
      [] exc = "JSONDecodeError" -> <<"J","S","O","N","D","e","c","o","d","e","E","r","r","o","r">>
      [] exc = "TypeError" -> <<"T","y","p","e","E","r","r","o","r">>
      [] exc = "AttributeError" -> <<"A","t","t","r","i","b","u","t","e","E","r","r","o","r">>
      [] exc = "ValidationError" -> <<"V","a","l","i","d","a","t","i","o","n","E","r","r","o","r">>

MsgClassificationError(exc) == <<"C","l","a","s","s","i","f","i","c","a","t","i","o","n"," ","e","r","r","o","r",":",
    " ">> \o ExcText(exc)

DecompositionErrorPrefix == <<"D","e","c","o","m","p","o","s","i","t","i","o","n"," ","e","r","r","o","r",":"," ">>

MsgDecompositionError(exc) == DecompositionErrorPrefix \o ExcText(exc)

MsgSynthesisError(exc) == <<"S","y","n","t","h","e","s","i","s"," ","e","r","r","o","r",":"," ">> \o ExcText(exc)

MsgUnableToDetermine == <<"U","n","a","b","l","e"," ","t","o"," ","d","e","t","e","r","m","i","n","e"," ","a",
    "n","s","w","e","r"," ","f","r","o","m"," ","a","v","a","i","l","a","b","l","e"," ",
    "d","a","t","a">>

MsgAnalysisBased == <<"A","n","a","l","y","s","i","s"," ","b","a","s","e","d"," ","o","n"," ","s","e","a",
    "r","c","h"," ","r","e","s","u","l","t","s">>

MsgUnableToExtract == <<"U","n","a","b","l","e"," ","t","o"," ","e","x","t","r","a","c","t"," ","a","n","s",
    "w","e","r">>

MsgExtractedPartial == <<"E","x","t","r","a","c","t","e","d"," ","f","r","o","m"," ","p","a","r","t","i","a",
    "l"," ","J","S","O","N">>

MsgDirectLLM == <<"D","i","r","e","c","t"," ","L","L","M"," ","r","e","s","p","o","n","s","e"," ","(",
    "J","S","O","N"," ","p","a","r","s","i","n","g"," ","f","a","i","l","e","d",")">>

MsgUnableToGenerate == <<"U","n","a","b","l","e"," ","t","o"," ","g","e","n","e","r","a","t","e"," ","a","n",
    "s","w","e","r"," ","f","r","o","m"," ","s","e","a","r","c","h"," ","r","e","s","u",
    "l","t","s">>

MsgNoValidResponse == <<"N","o"," ","v","a","l","i","d"," ","r","e","s","p","o","n","s","e"," ","r","e","c",
    "e","i","v","e","d">>

MsgBasedOnData == <<"B","a","s","e","d"," ","o","n"," ","a","v","a","i","l","a","b","l","e"," ","d","a",
    "t","a",":"," ">>

MsgGeneratedFromSearch == <<"G","e","n","e","r","a","t","e","d"," ","f","r","o","m"," ","s","e","a","r","c","h",
    " ","r","e","s","u","l","t","s"," ","d","u","e"," ","t","o"," ","s","y","n","t","h",
    "e","s","i","s"," ","f","a","i","l","u","r","e">>

MsgUnableToFind == <<"U","n","a","b","l","e"," ","t","o"," ","f","i","n","d"," ","r","e","l","e","v","a",
    "n","t"," ","i","n","f","o","r","m","a","t","i","o","n"," ","i","n"," ","t","h","e",
    " ","s","e","a","r","c","h"," ","r","e","s","u","l","t","s">>

MsgNoSearchResults == <<"N","o"," ","s","e","a","r","c","h"," ","r","e","s","u","l","t","s"," ","a","v","a",
    "i","l","a","b","l","e"," ","f","o","r"," ","a","n","a","l","y","s","i","s">>

MsgUnableToSynthesize == <<"U","n","a","b","l","e"," ","t","o"," ","s","y","n","t","h","e","s","i","z","e"," ",
    "a","n","s","w","e","r"," ","d","u","e"," ","t","o"," ","p","r","o","c","e","s","s",
    "i","n","g"," ","e","r","r","o","r">>

MsgErrorProcessing(exc) == <<"E","r","r","o","r"," ","p","r","o","c","e","s","s","i","n","g"," ","q","u","e","r",
    "y",":"," ">> \o ExcText(exc)

MsgProcessingFailed == <<"P","r","o","c","e","s","s","i","n","g"," ","f","a","i","l","e","d"," ","d","u","e",
    " ","t","o"," ","s","y","s","t","e","m"," ","e","r","r","o","r">>

\* Fallback 2 keeps the raw content when it is longer than this.
RawMinLen == 10

\* Fallback 2 keeps this many characters of the raw content.
RawMaxLen == 500

\* Fallback 3 quotes this many characters of the first snippet.
SampleLen == 200

\* chunk_to_source: the excerpt is the first ExcerptLen characters.
ExcerptLen == 200

\* _execute_searches calls search(query, k=5).
SearchK == 5

\* ------------------------------------------------------------- f-strings

\* str(v), as an f-string formats a value.
PyFormat(v) ==
    CASE v.t = "str" -> v.s
      [] v.t = "int" -> v.lit
      [] v.t = "none" -> <<"N","o","n","e">>
      [] v.t = "bool" -> IF v.b THEN <<"T","r","u","e">> ELSE <<"F","a","l","s","e">>
      [] v.t = "float" -> v.lit

\* ------------------------------------------------- the language model

\* One llm.invoke(): it raises, or returns a message whose content is text.
LlmRaises == [raised |-> TRUE, content |-> <<>>]

LlmReturns(text) == [raised |-> FALSE, content |-> text]

\* ------------------------------------------------------------ AgentState

\* process_query's initial_state.
InitialState(q) ==
    [query |-> q,
     query_type |-> <<>>,
     sub_queries |-> PyList(<<>>),
     search_results |-> <<>>,
     final_answer |-> PyStr(<<>>),
     reasoning |-> PyStr(<<>>),
     sources |-> <<>>,
     error |-> PyNone]

\* ------------------------------------------------------- _classify_query

\* ClassifyQuery without the .lower() of line 93.
ClassifyQuery_NoLower(state, llm) ==
    IF llm.raised
    THEN [state EXCEPT !.query_type = S_complex,
                       !.error = PyStr(MsgClassificationError("ProviderError"))]
    ELSE LET query_type == Strip(llm.content)
         IN  [state EXCEPT !.query_type =
                 IF query_type \notin {S_simple, S_complex} THEN S_complex ELSE query_type]

ClassifyQuery(state, llm) ==
    IF llm.raised
    THEN [state EXCEPT !.query_type = S_complex,
                       !.error = PyStr(MsgClassificationError("ProviderError"))]
    ELSE LET query_type == Lower(Strip(llm.content))
         IN  [state EXCEPT !.query_type =
                 IF query_type \notin {S_simple, S_complex} THEN S_complex ELSE query_type]

\* Conditional edges that lead to decompose_query whatever the label.
ShouldDecompose_Always(state) == "decompose_query"

\* A routing that sends a failed classification back to the classifier.
ShouldDecompose_Retry(state) ==
    IF state.error # PyNone THEN "classify_query"
    ELSE IF state.query_type = S_simple THEN "execute_searches" ELSE "decompose_query"

\* _should_decompose, through the conditional edges of _build_graph.
ShouldDecompose(state) ==
    CASE state.query_type = S_simple -> "execute_searches"
      [] state.query_type = S_complex -> "decompose_query"

\* ------------------------------------------------------ _decompose_query

\* An except branch that records the error and forgets the fallback list.
DecomposeFallback_NoList(state, exc) ==
    [state EXCEPT !.error = PyStr(MsgDecompositionError(exc))]

\* An except branch that falls back to the empty list.
DecomposeFallback_Empty(state, exc) ==
    [state EXCEPT !.sub_queries = PyList(<<>>),
                  !.error = PyStr(MsgDecompositionError(exc))]

\* An except branch that records its error only when none is recorded yet.
DecomposeFallback_KeepError(state, exc) ==
    [state EXCEPT !.sub_queries = PyList(<<PyStr(state.query)>>),
                  !.error = IF state.error = PyNone THEN PyStr(MsgDecompositionError(exc)) ELSE @]

\* The except branch: the original query alone, and the error recorded.
DecomposeFallback(state, exc) ==
    [state EXCEPT !.sub_queries = PyList(<<PyStr(state.query)>>),
                  !.error = PyStr(MsgDecompositionError(exc))]

\* Only a response that starts with the json-tagged fence is unwrapped.
StripJsonFence(content) ==
    IF StartsWith(content, FenceJson)
    THEN Strip(Remove(Remove(content, FenceJson), Fence))
    ELSE content

\* json.loads(content); the assignment to state; then len(sub_queries) in
\* the print, which raises TypeError for a value without a length.
DecomposeQuery(state, llm) ==
    IF llm.raised THEN DecomposeFallback(state, "ProviderError")
    ELSE LET parsed == JsonLoads(StripJsonFence(Strip(llm.content)))
         IN  IF ~parsed.ok THEN DecomposeFallback(state, "JSONDecodeError")
             ELSE IF ~Sized(parsed.v) THEN DecomposeFallback(state, "TypeError")
             ELSE [state EXCEPT !.sub_queries = parsed.v]

\* ----------------------------------------------------- _execute_searches

\* vector_store.search(query, k=5): it raises, or returns (chunk, score)
\* pairs, hits[i] = [chunk |-> c, score |-> n].
SearchRaises == [raised |-> TRUE, hits |-> <<>>]

SearchReturns(hits) == [raised |-> FALSE, hits |-> hits]

\* FAISSVectorStore.chunk_to_source
ChunkToSource(chunk, similarity_score) ==
    [company |-> chunk.metadata.company,
     year |-> chunk.metadata.year,
     excerpt |-> IF Len(chunk.content) > ExcerptLen
                 THEN Prefix(chunk.content, ExcerptLen) \o <<".",".",".">>
                 ELSE chunk.content,
     page |-> chunk.page_number,
     section |-> chunk.section,
     chunk_id |-> chunk.chunk_id,
     similarity_score |-> similarity_score]

\* One entry of search_data.
SearchDatum(chunk, score) ==
    [content |-> chunk.content,
     score |-> score,
     company |-> chunk.metadata.company,
     year |-> chunk.metadata.year,
     section |-> chunk.section,
     page |-> chunk.page_number]

SearchData(hits) == [i \in 1..Len(hits) |-> SearchDatum(hits[i].chunk, hits[i].score)]

HitSources(hits) == [i \in 1..Len(hits) |-> ChunkToSource(hits[i].chunk, hits[i].score)]

\* A loop that runs over sub_queries whatever the label.
SearchQueries_SubQueriesOnly(state) == state.sub_queries

\* The list the loop runs over.
SearchQueries(state) ==
    IF state.query_type = S_simple THEN PyList(<<PyStr(state.query)>>) ELSE state.sub_queries

\* One turn of the loop that keeps the sources of a query only the first
\* time the query's text is seen.
SearchOne_Dedup(acc, query, outcome) ==
    IF ~Hashable(query)
    THEN [acc EXCEPT !.raised = TRUE, !.searched = Append(@, query)]
    ELSE IF outcome.raised
    THEN [acc EXCEPT !.search_results = DictSet(@, query, <<>>),
                     !.searched = Append(@, query)]
    ELSE [acc EXCEPT !.search_results = DictSet(@, query, SearchData(outcome.hits)),
                     !.all_sources = IF HasKey(acc.search_results, query) THEN @
                                     ELSE @ \o HitSources(outcome.hits),
                     !.searched = Append(@, query)]

\* One turn of the loop that keeps the first results stored under a query.
SearchOne_KeepFirst(acc, query, outcome) ==
    IF ~Hashable(query)
    THEN [acc EXCEPT !.raised = TRUE, !.searched = Append(@, query)]
    ELSE IF HasKey(acc.search_results, query)
    THEN [acc EXCEPT !.all_sources = IF outcome.raised THEN @ ELSE @ \o HitSources(outcome.hits),
                     !.searched = Append(@, query)]
    ELSE IF outcome.raised
    THEN [acc EXCEPT !.search_results = DictSet(@, query, <<>>),
                     !.searched = Append(@, query)]
    ELSE [acc EXCEPT !.search_results = DictSet(@, query, SearchData(outcome.hits)),
                     !.all_sources = @ \o HitSources(outcome.hits),
                     !.searched = Append(@, query)]

\* One turn of the loop that puts the new sources in front of the others.
SearchOne_Prepend(acc, query, outcome) ==
    IF ~Hashable(query)
    THEN [acc EXCEPT !.raised = TRUE, !.searched = Append(@, query)]
    ELSE IF outcome.raised
    THEN [acc EXCEPT !.search_results = DictSet(@, query, <<>>),
                     !.searched = Append(@, query)]
    ELSE [acc EXCEPT !.search_results = DictSet(@, query, SearchData(outcome.hits)),
                     !.all_sources = HitSources(outcome.hits) \o @,
                     !.searched = Append(@, query)]

\* One turn of `for query in queries`, acc = the loop's locals.  A search
\* that raises leaves [] under the query; the stores search_results[query]
\* = ..., in the try and in the except branch alike, raise TypeError for an
\* unhashable query, and that one leaves the function.
SearchOne(acc, query, outcome) ==
    IF ~Hashable(query)
    THEN [acc EXCEPT !.raised = TRUE, !.searched = Append(@, query)]
    ELSE IF outcome.raised
    THEN [acc EXCEPT !.search_results = DictSet(@, query, <<>>),
                     !.searched = Append(@, query)]
    ELSE [acc EXCEPT !.search_results = DictSet(@, query, SearchData(outcome.hits)),
                     !.all_sources = @ \o HitSources(outcome.hits),
                     !.searched = Append(@, query)]

RECURSIVE SearchLoop(_, _, _, _)
SearchLoop(acc, queries, outcomes, i) ==
    IF i > Len(queries) \/ acc.raised THEN acc
    ELSE SearchLoop(SearchOne(acc, queries[i], outcomes[i]), queries, outcomes, i + 1)

\* The node: [raised, state, searched].  raised: an exception left it.
ExecuteSearches(state, outcomes) ==
    LET queries == SearchQueries(state)
        state1 == IF state.query_type = S_simple
                  THEN [state EXCEPT !.sub_queries = PyList(<<PyStr(state.query)>>)]
                  ELSE state
        start == [search_results |-> <<>>, all_sources |-> <<>>, searched |-> <<>>,
                  raised |-> ~Iterable(queries)]
        done == IF Iterable(queries) THEN SearchLoop(start, Elements(queries), outcomes, 1)
                ELSE start
    IN  [raised |-> done.raised,
         searched |-> done.searched,
         state |-> IF done.raised THEN state
                   ELSE [state1 EXCEPT !.search_results = done.search_results,
                                       !.sources = done.all_sources]]

\* ---------------------------------------------------- _synthesize_answer

\* content.split(fence)[1] of a content that starts with the fence.
SecondPiece(content) ==
    LET rest == SubSeq(content, Len(Fence) + 1, Len(content))
        nxt == Find(rest, Fence, 1)
    IN  IF nxt = 0 THEN rest ELSE SubSeq(rest, 1, nxt - 1)

\* Lines 244-259: the three fence clean-ups applied to the response text.
CleanContent(raw) ==
    LET c0 == Strip(raw)
        c1 == IF StartsWith(c0, FenceJson) THEN Strip(Remove(Remove(c0, FenceJson), Fence))
              ELSE IF StartsWith(c0, Fence) THEN Strip(Remove(c0, Fence))
              ELSE c0
        p == SecondPiece(c1)
    IN  IF StartsWith(c1, Fence)
        THEN IF StartsWith(p, <<"j","s","o","n">>) THEN Strip(SubSeq(p, 5, Len(p))) ELSE p
        ELSE c1

NoMatch == [found |-> FALSE, text |-> <<>>]

QuotedAnswer == <<DQ>> \o S_answer \o <<DQ>>

QuotedReasoning == <<DQ>> \o S_reasoning \o <<DQ>>

\* The pattern \{[^{}]*"answer"[^{}]*"reasoning"[^{}]*\} matches at i: s[i]
\* opens, the next brace closes, and the two quoted names lie between, in
\* that order.
AnswerObjectAt(s, i) ==
    LET j == FirstIn(s, i + 1, {"{", "}"})
        inner == SubSeq(s, i + 1, j - 1)
        a == Find(inner, QuotedAnswer, 1)
    IN  /\ s[i] = "{"
        /\ At(s, j) = "}"
        /\ a # 0
        /\ Find(inner, QuotedReasoning, a + Len(QuotedAnswer)) # 0

\* re.search(r'\{[^{}]*"answer"[^{}]*"reasoning"[^{}]*\}', content, re.DOTALL)
SearchAnswerObject(s) ==
    IF \E i \in 1..Len(s) : AnswerObjectAt(s, i)
    THEN LET i == CHOOSE i \in 1..Len(s) :
                     AnswerObjectAt(s, i) /\ \A m \in 1..(i - 1) : ~AnswerObjectAt(s, m)
         IN  [found |-> TRUE, text |-> SubSeq(s, i, FirstIn(s, i + 1, {"{", "}"}))]
    ELSE NoMatch

\* re.search(r'\{.*?\}', content, re.DOTALL)
SearchAnyObject(s) ==
    LET i == FirstIn(s, 1, {"{"})
        j == FirstIn(s, i + 1, {"}"})
    IN  IF j > Len(s) THEN NoMatch
        ELSE [found |-> TRUE, text |-> SubSeq(s, i, j)]

\* Fallback 1: the two patterns in turn.
JsonMatch(content) ==
    LET m == SearchAnswerObject(content)
    IN  IF m.found THEN m ELSE SearchAnyObject(content)

\* Fallback 2: the raw content, or the fixed message for a short one.
RawContentFallback(state, content) ==
    IF content # <<>> /\ Len(Strip(content)) > RawMinLen
    THEN [state EXCEPT !.final_answer = PyStr(Prefix(Strip(content), RawMaxLen)),
                       !.reasoning = PyStr(MsgDirectLLM)]
    ELSE [state EXCEPT !.final_answer = PyStr(MsgUnableToGenerate),
                       !.reasoning = PyStr(MsgNoValidResponse)]

\* Fallback 3: the first result of the first query that has one.
SearchContextFallback(state) ==
    LET sr == state.search_results
        with == {i \in 1..Len(sr) : sr[i].v # <<>>}
        first == sr[CHOOSE i \in with : \A j \in with : i <= j]
        sample_content == <<"F","r","o","m"," ","s","e","a","r","c","h"," ","'">> \o PyFormat(first.k) \o <<"'",":"," ">>
                          \o Prefix(first.v[1].content, SampleLen) \o <<".",".","."," ">>
    IN  IF with # {}
        THEN [state EXCEPT !.final_answer = PyStr(MsgBasedOnData \o sample_content),
                           !.reasoning = PyStr(MsgGeneratedFromSearch)]
        ELSE [state EXCEPT !.final_answer = PyStr(MsgUnableToFind),
                           !.reasoning = PyStr(MsgNoSearchResults)]

\* The handler of json.JSONDecodeError (lines 268-310).
ParseFallback(state, content) ==
    LET json_match == JsonMatch(content)
        result == JsonLoads(json_match.text)
    IN  IF json_match.found
        THEN IF result.ok /\ result.v.t = "dict"
             THEN [state EXCEPT
                     !.final_answer = DictGet(result.v.kv, PyStr(S_answer), PyStr(MsgUnableToExtract)),
                     !.reasoning = DictGet(result.v.kv, PyStr(S_reasoning), PyStr(MsgExtractedPartial))]
             ELSE RawContentFallback(state, content)
        ELSE SearchContextFallback(state)

\* The outer except branch writing state["error"] without the test of line 316.
SynthesisError_Overwrite(state, exc) ==
    [state EXCEPT !.final_answer = PyStr(MsgUnableToSynthesize),
                  !.reasoning = PyStr(MsgSynthesisError(exc)),
                  !.error = PyStr(MsgSynthesisError(exc))]

\* The outer except branch (lines 312-317).
SynthesisError(state, exc) ==
    [state EXCEPT !.final_answer = PyStr(MsgUnableToSynthesize),
                  !.reasoning = PyStr(MsgSynthesisError(exc)),
                  !.error = IF state.error = PyNone THEN PyStr(MsgSynthesisError(exc)) ELSE @]

\* Lines 212-220: the context of the synthesis prompt, as the list
\* context_parts (the prompt holds its parts joined by newlines).
ContextResults == 3

ContextLimit == 500

\* str(n) of a position in a result list (one digit: there are at most k = 5).
IndexText(n) == <<<<"0">>, <<"1">>, <<"2">>, <<"3">>, <<"4">>, <<"5">>, <<"6">>, <<"7">>, <<"8">>, <<"9">>>>[n + 1]

\* f"Result {i+1}: {result['content'][:500]}..." for the i-th of results[:3]
ResultPart(i, result) ==
    <<"R","e","s","u","l","t"," ">> \o IndexText(i) \o <<":"," ">> \o Prefix(result.content, ContextLimit) \o <<".",".",".">>

\* Every result of the sub-query, not the first three.
TopResults_All(results) == results

\* results[:3]
TopResults(results) == SubSeq(results, 1, IF Len(results) < ContextResults THEN Len(results) ELSE ContextResults)

\* The parts one item of search_results gives: label, results, empty line.
QueryParts(query, results) ==
    <<<<"S","e","a","r","c","h",":"," ">> \o PyFormat(query)>>
      \o [i \in 1..Len(TopResults(results)) |-> ResultPart(i, TopResults(results)[i])]
      \o << <<>> >>

RECURSIVE ContextParts(_, _)
ContextParts(search_results, i) ==
    IF i > Len(search_results) THEN <<>>
    ELSE QueryParts(search_results[i].k, search_results[i].v) \o ContextParts(search_results, i + 1)

RECURSIVE JoinLines(_, _)
JoinLines(parts, i) ==
    IF i > Len(parts) THEN <<>>
    ELSE IF i = Len(parts) THEN parts[i]
    ELSE parts[i] \o <<"\n">> \o JoinLines(parts, i + 1)

\* context = "\n".join(context_parts)
SynthesisContext(state) == JoinLines(ContextParts(state.search_results, 1), 1)

SynthesizeAnswer(state, llm) ==
    IF llm.raised THEN SynthesisError(state, "ProviderError")
    ELSE LET content == CleanContent(llm.content)
             result == JsonLoads(content)
         IN  IF ~result.ok THEN ParseFallback(state, content)
             ELSE IF result.v.t # "dict" THEN SynthesisError(state, "AttributeError")
             ELSE [state EXCEPT
                     !.final_answer = DictGet(result.v.kv, PyStr(S_answer), PyStr(MsgUnableToDetermine)),
                     !.reasoning = DictGet(result.v.kv, PyStr(S_reasoning), PyStr(MsgAnalysisBased))]
\* ------------------------------------------------------- process_query

\* pydantic's validation of a str field.  lax: pydantic 1 turns an int, a
\* float or a bool into its text; pydantic 2 refuses it.  None, a list and a
\* dict are refused by both.
StrFieldOk(v, lax) == v.t = "str" \/ (lax /\ v.t \in {"int", "float", "bool"})

\* pydantic's validation of a List[str] field.
StrListFieldOk(v, lax) == v.t = "list" /\ \A i \in 1..Len(v.xs) : StrFieldOk(v.xs[i], lax)

QueryResponse(query, answer, reasoning, sub_queries, sources) ==
    [query |-> query, answer |-> answer, reasoning |-> reasoning,
     sub_queries |-> sub_queries, sources |-> sources]

\* The except branch of process_query.
ErrorResponse(query, exc) ==
    QueryResponse(query, MsgErrorProcessing(exc), MsgProcessingFailed, <<query>>, <<>>)

Returned(response) == [returned |-> TRUE, response |-> response]

\* An exception that leaves process_query.
Propagated(exc) == [returned |-> FALSE, exc |-> exc]

\* Nothing yet: the call is running, or none was made.
Pending == [returned |-> FALSE, exc |-> "none"]

\* process_query without its try/except around graph.invoke.
ProcessQueryResult_NoCatch(query, graph_raised, final_state, lax) ==
    IF graph_raised THEN Propagated("TypeError")
    ELSE IF /\ StrFieldOk(final_state.final_answer, lax)
            /\ StrFieldOk(final_state.reasoning, lax)
            /\ StrListFieldOk(final_state.sub_queries, lax)
    THEN Returned(QueryResponse(query,
                                PyFormat(final_state.final_answer),
                                PyFormat(final_state.reasoning),
                                [i \in 1..Len(final_state.sub_queries.xs) |->
                                    PyFormat(final_state.sub_queries.xs[i])],
                                final_state.sources))
    ELSE Propagated("ValidationError")

\* A process_query whose except branch returns what the run had computed.
ProcessQueryResult_KeepState(query, graph_raised, final_state, lax) ==
    IF /\ ~graph_raised
       /\ StrFieldOk(final_state.final_answer, lax)
       /\ StrFieldOk(final_state.reasoning, lax)
       /\ StrListFieldOk(final_state.sub_queries, lax)
    THEN Returned(QueryResponse(query,
                                PyFormat(final_state.final_answer),
                                PyFormat(final_state.reasoning),
                                [i \in 1..Len(final_state.sub_queries.xs) |->
                                    PyFormat(final_state.sub_queries.xs[i])],
                                final_state.sources))
    ELSE Returned(QueryResponse(query, MsgErrorProcessing("ValidationError"), MsgProcessingFailed,
                                <<query>>, final_state.sources))

\* Lines 336-359: graph_raised is an exception out of self.graph.invoke;
\* the QueryResponse constructor raises ValidationError on a bad field.
ProcessQueryResult(query, graph_raised, final_state, lax) ==
    IF graph_raised THEN Returned(ErrorResponse(query, "TypeError"))
    ELSE IF /\ StrFieldOk(final_state.final_answer, lax)
            /\ StrFieldOk(final_state.reasoning, lax)
            /\ StrListFieldOk(final_state.sub_queries, lax)
    THEN Returned(QueryResponse(query,
                                PyFormat(final_state.final_answer),
                                PyFormat(final_state.reasoning),
                                [i \in 1..Len(final_state.sub_queries.xs) |->
                                    PyFormat(final_state.sub_queries.xs[i])],
                                final_state.sources))
    ELSE Returned(ErrorResponse(query, "ValidationError"))

\* ----------------------------------------------------------------- inputs

\* The retriever returns at most MaxHits pairs per search (MaxHits <= k).
MaxHits == 2

Pad(n) == [i \in 1..n |-> "x"]

\* The chunk ranked i-th; every second one is longer than an excerpt.
ChunkNo(i) ==
    [chunk_id |-> <<"MSFT_2023_", i>>,
     content |-> IF i % 2 = 0 THEN <<"O","p","e","r","a","t","i","n","g"," ","m","a","r","g","i","n"," ">> \o Pad(ExcerptLen)
                 ELSE <<"R","e","v","e","n","u","e"," ","w","a","s"," ","$","2","1","1",".","9"," ","b","i",
    "l","l","i","o","n">>,
     metadata |-> [company |-> "MSFT", year |-> "2023"],
     section |-> "Item 7",
     page_number |-> i]

\* The retriever's answer of n pairs, best first.
Ranking(n) == [i \in 1..n |-> [chunk |-> ChunkNo(i), score |-> 100 - 10 * i]]

SearchOutcomes == {SearchRaises} \cup {SearchReturns(Ranking(n)) : n \in 0..MaxHits}

Query1 == <<"m","s","f","t"," ","r","e","v","e","n","u","e"," ","2","0","2","3","?">>

Query2 == <<"c","o","m","p","a","r","e"," ","m","a","r","g","i","n","s">>

Queries == {Query1, Query2}

ClassifierReplies ==
    {LlmRaises,
     LlmReturns(<<"s","i","m","p","l","e">>),
     LlmReturns(<<" ","S","i","m","p","l","e","\n">>),
     LlmReturns(<<"c","o","m","p","l","e","x">>),
     LlmReturns(<<>>),
     LlmReturns(<<"s","i","m","p","l","e"," ","q","u","e","r","y">>)}

TwoSubQueries == <<"[","\"","m","s","f","t"," ","m","a","r","g","i","n","\"",","," ","\"","g","o","o",
    "g"," ","m","a","r","g","i","n","\"","]">>

DecomposerReplies ==
    {LlmRaises,
     LlmReturns(TwoSubQueries),
     LlmReturns(FenceJson \o <<"\n">> \o TwoSubQueries \o <<"\n">> \o Fence),
     LlmReturns(Fence \o <<"\n">> \o TwoSubQueries \o <<"\n">> \o Fence),
     LlmReturns(<<"1","."," ","m","s","f","t"," ","m","a","r","g","i","n">>),
     LlmReturns(<<"[","]">>),
     LlmReturns(<<"[","\"","a","\"",","," ","\"","a","\"","]">>),
     LlmReturns(<<"\"","a","b","\"">>),
     LlmReturns(<<"{","\"","q","\"",":"," ","\"","a","\"","}">>),
     LlmReturns(<<"5">>),
     LlmReturns(<<"[","[","\"","a","\"","]","]">>),
     LlmReturns(<<"[","\"","a","\"",","," ","5","]">>),
     LlmReturns(<<"[","\"","a","\"",","," ","\"","b","\"",","," ","\"","c","\"","]">>)}

GoodAnswer == <<"{","\"","a","n","s","w","e","r","\"",":"," ","\"","A","1","\"",","," ","\"","r",
    "e","a","s","o","n","i","n","g","\"",":"," ","\"","R","1","\"","}">>

SynthesizerReplies ==
    {LlmRaises,
     LlmReturns(GoodAnswer),
     LlmReturns(FenceJson \o <<"\n">> \o GoodAnswer \o <<"\n">> \o Fence),
     LlmReturns(<<"{","\"","a","n","s","w","e","r","\"",":"," ","n","u","l","l",","," ","\"","r","e",
    "a","s","o","n","i","n","g","\"",":"," ","\"","R","\"","}">>),
     LlmReturns(<<"{","\"","a","n","s","w","e","r","\"",":"," ","5","}">>),
     LlmReturns(<<"[","1","]">>),
     LlmReturns(<<"H","e","r","e",":"," ","{","\"","a","n","s","w","e","r","\"",":"," ","\"","A","\"",
    ","," ","\"","r","e","a","s","o","n","i","n","g","\"",":"," ","\"","R","\"","}"," ",
    "d","o","n","e">>),
     LlmReturns(<<"S","u","r","e"," ","{","\"","a","n","s","w","e","r","\"",":"," ","\"","A","\"","}",
    " ","o","k">>),
     LlmReturns(<<"R","e","v","e","n","u","e"," ","w","a","s"," ","{","x","}"," ","b","i","l","l","i",
    "o","n">>),
     LlmReturns(<<"{","a","}">>),
     LlmReturns(<<"R","e","v","e","n","u","e"," ","w","a","s"," ","2","1","1"," ","b","i","l","l","i",
    "o","n">>),
     LlmReturns(<<>>),
     LlmReturns(<<"n","/","a">>),
     LlmReturns(<<"{","x","}"," ">> \o Pad(RawMaxLen))}

\* ------------------------------------------------------ FAISSVectorStore

\* A DocumentChunk (schemas.py) with its DocumentMetadata.
DocumentChunk(chunk_id, company, year, section, content) ==
    [chunk_id |-> chunk_id,
     content |-> content,
     metadata |-> [company |-> company, year |-> year, filing_type |-> "10-K",
                   total_pages |-> PyNone, sections |-> PyNone],
     page_number |-> PyNone,
     section |-> section,
     token_count |-> PyNone]

\* self.dimension once it is recorded (None before).
Dimension(d) == [t |-> "int", n |-> d]

\* embedding_model.encode: one vector per text, of the model's width.  A
\* model is known by its width; a vector by the text it embeds.
Encode(model, texts) == [i \in 1..Len(texts) |-> [of |-> texts[i], d |-> model]]

\* faiss.IndexFlatIP(dimension)
CreateIndex(dimension) == [d |-> dimension, vecs |-> <<>>]

\* index.ntotal
NTotal(index) == Len(index.vecs)

\* index.add and index.search assert that the width of what they are given
\* is the index's.
WidthOk(index, vectors) == \A i \in 1..Len(vectors) : vectors[i].d = index.d

\* index.add(embeddings), the widths being right.
IndexAdd(index, embeddings) == [index EXCEPT !.vecs = @ \o embeddings]

\* The inner product of the normalised embeddings of two texts.
Similarity(query, text) ==
    CASE query = "revenue" /\ text = "msft revenue" -> 9
      [] query = "revenue" /\ text = "goog revenue" -> 7
      [] query = "revenue" /\ text = "msft margin" -> 2
      [] query = "margin" /\ text = "msft margin" -> 8
      [] query = "margin" /\ text = "msft revenue" -> 3
      [] query = "margin" /\ text = "goog revenue" -> 1

\* The positions of S whose vector scores best against the query.
Best(index, query, S) ==
    {p \in S : \A r \in S : Similarity(query, index.vecs[p].of) >= Similarity(query, index.vecs[r].of)}

\* The ranking of the positions S, best score first; among equal scores the
\* lowest position first (low) or the highest.
RECURSIVE RankingOf(_, _, _, _)
RankingOf(index, query, S, low) ==
    IF S = {} THEN <<>>
    ELSE LET best == Best(index, query, S)
             p == CHOOSE p \in best : \A r \in best : IF low THEN p <= r ELSE p >= r
         IN  <<p>> \o RankingOf(index, query, S \ {p}, low)

\* The orders index.search may rank the index in: faiss does not fix the
\* order of equal scores.
Rankings(index, query) ==
    {RankingOf(index, query, 1..NTotal(index), low) : low \in BOOLEAN}

\* index.search(query_embedding, n): the n best (score, position) pairs of
\* a ranking.  Positions count from 1 here, from 0 in faiss.
IndexSearch(index, query, n, order) ==
    [i \in 1..n |-> [score |-> Similarity(query, index.vecs[order[i]].of), idx |-> order[i]]]

\* The over-fetch factor of search.
OverFetch == 3

\* Python's truth value of a filter argument: None and "" are false.
Truthy(filter) == filter # PyNone /\ filter # PyStr("")

\* The filter tests without those of the year and the section.
PassesFilters_CompanyOnly(chunk, company_filter, year_filter, section_filter) ==
    ~(Truthy(company_filter) /\ PyStr(chunk.metadata.company) # company_filter)

\* The three `continue` tests of search (lines 187-192).
PassesFilters(chunk, company_filter, year_filter, section_filter) ==
    /\ ~(Truthy(company_filter) /\ PyStr(chunk.metadata.company) # company_filter)
    /\ ~(Truthy(year_filter) /\ PyStr(chunk.metadata.year) # year_filter)
    /\ ~(Truthy(section_filter) /\ chunk.section # section_filter)

\* What a call of search gives: it raised, or it returned hits; encoded:
\* the embedding model was called; candidates: what index.search returned.
SearchResult(raised, encoded, candidates, hits) ==
    [raised |-> raised, encoded |-> encoded, candidates |-> candidates, hits |-> hits]

\* The loop of lines 182-194 without the test of line 183: a candidate beyond
\* chunks_metadata is looked up, which raises IndexError.
SearchCore_NoBoundsCheck(self, query, k, company_filter, year_filter, section_filter, order, n) ==
    IF n <= 0 \/ ~WidthOk(self.index, Encode(self.model, <<query>>))
    THEN SearchResult(TRUE, TRUE, <<>>, <<>>)
    ELSE LET candidates == IndexSearch(self.index, query, n, order)
             Keep(c) == PassesFilters(self.chunks_metadata[c.idx],
                                      company_filter, year_filter, section_filter)
             kept == SelectSeq(candidates, Keep)
             results == [i \in 1..Len(kept) |->
                           [chunk |-> self.chunks_metadata[kept[i].idx], score |-> kept[i].score]]
         IN  IF \E i \in 1..Len(candidates) : candidates[i].idx > Len(self.chunks_metadata)
             THEN SearchResult(TRUE, TRUE, candidates, <<>>)
             ELSE SearchResult(FALSE, TRUE, candidates, Prefix(results, k))

\* Lines 173-197 with n candidates asked of the index.  index.search
\* asserts n > 0 and the width of the query vector.
SearchCore(self, query, k, company_filter, year_filter, section_filter, order, n) ==
    IF n <= 0 \/ ~WidthOk(self.index, Encode(self.model, <<query>>))
    THEN SearchResult(TRUE, TRUE, <<>>, <<>>)
    ELSE LET candidates == IndexSearch(self.index, query, n, order)
             Keep(c) == /\ c.idx >= 1 /\ c.idx <= Len(self.chunks_metadata)
                        /\ PassesFilters(self.chunks_metadata[c.idx],
                                         company_filter, year_filter, section_filter)
             kept == SelectSeq(candidates, Keep)
             results == [i \in 1..Len(kept) |->
                           [chunk |-> self.chunks_metadata[kept[i].idx], score |-> kept[i].score]]
         IN  SearchResult(FALSE, TRUE, candidates, Prefix(results, k))

Min(a, b) == IF a <= b THEN a ELSE b

\* search that asks the index for k candidates only.
Search_NoOverFetch(self, query, k, company_filter, year_filter, section_filter, order) ==
    IF self.index = PyNone \/ NTotal(self.index) = 0
    THEN SearchResult(FALSE, FALSE, <<>>, <<>>)
    ELSE SearchCore(self, query, k, company_filter, year_filter, section_filter, order,
                    Min(k, NTotal(self.index)))

\* search that returns early only when there is no index object.
Search_NoEmptyCheck(self, query, k, company_filter, year_filter, section_filter, order) ==
    IF self.index = PyNone
    THEN SearchResult(FALSE, FALSE, <<>>, <<>>)
    ELSE SearchCore(self, query, k, company_filter, year_filter, section_filter, order,
                    Min(k * OverFetch, NTotal(self.index)))

\* FAISSVectorStore.search
Search(self, query, k, company_filter, year_filter, section_filter, order) ==
    IF self.index = PyNone \/ NTotal(self.index) = 0
    THEN SearchResult(FALSE, FALSE, <<>>, <<>>)
    ELSE SearchCore(self, query, k, company_filter, year_filter, section_filter, order,
                    Min(k * OverFetch, NTotal(self.index)))

\* A file a write was interrupted in (no file is PyNone).
Partial == [t |-> "partial"]

\* The dict _save_index writes for a chunk (lines 69-82).
ChunkDict(chunk) ==
    [chunk_id |-> chunk.chunk_id,
     content |-> chunk.content,
     metadata |-> [company |-> chunk.metadata.company,
                   year |-> chunk.metadata.year,
                   filing_type |-> chunk.metadata.filing_type,
                   total_pages |-> chunk.metadata.total_pages,
                   sections |-> chunk.metadata.sections],
     page_number |-> chunk.page_number,
     section |-> chunk.section,
     token_count |-> chunk.token_count]

\* The DocumentChunk _load_index makes of a dict (lines 112-120).
ChunkOfDict(chunk_dict) ==
    [chunk_id |-> chunk_dict.chunk_id,
     content |-> chunk_dict.content,
     metadata |-> [company |-> chunk_dict.metadata.company,
                   year |-> chunk_dict.metadata.year,
                   filing_type |-> chunk_dict.metadata.filing_type,
                   total_pages |-> chunk_dict.metadata.total_pages,
                   sections |-> chunk_dict.metadata.sections],
     page_number |-> chunk_dict.page_number,
     section |-> chunk_dict.section,
     token_count |-> chunk_dict.token_count]

\* The two files under index_path: faiss_index.bin (PyNone when there is
\* none, else the index written) and chunks_metadata.json (a list of dicts).
Files(index_file, metadata_file) == [index_file |-> index_file, metadata_file |-> metadata_file]

\* _save_index: [raised, files].  fail names the write that is interrupted
\* ("write_index", "write_metadata": the file is left partly written), or
\* says that the process stops between the two writes ("between_writes").
SaveIndex(self, files, fail) ==
    IF self.index = PyNone THEN [raised |-> FALSE, files |-> files]
    ELSE IF fail = "write_index"
    THEN [raised |-> TRUE, files |-> [files EXCEPT !.index_file = Partial]]
    ELSE IF fail = "between_writes"
    THEN [raised |-> TRUE, files |-> [files EXCEPT !.index_file = self.index]]
    ELSE IF fail = "write_metadata"
    THEN [raised |-> TRUE, files |-> Files(self.index, Partial)]
    ELSE [raised |-> FALSE,
          files |-> Files(self.index,
                          PyList([i \in 1..Len(self.chunks_metadata) |->
                                     ChunkDict(self.chunks_metadata[i])]))]

\* __init__ before _load_index (lines 28-36).
NewStore(model) ==
    [model |-> model, index |-> PyNone, chunks_metadata |-> <<>>, dimension |-> PyNone]

\* _load_index
LoadIndex(self, files) ==
    IF files.index_file = PyNone \/ files.metadata_file = PyNone THEN self
    ELSE IF files.index_file = Partial
    THEN [self EXCEPT !.index = PyNone, !.chunks_metadata = <<>>]
    ELSE IF files.metadata_file = Partial
    THEN [self EXCEPT !.index = PyNone, !.chunks_metadata = <<>>,
                      !.dimension = Dimension(files.index_file.d)]
    ELSE [self EXCEPT !.index = files.index_file,
                      !.dimension = Dimension(files.index_file.d),
                      !.chunks_metadata = [i \in 1..Len(files.metadata_file.xs) |->
                                              ChunkOfDict(files.metadata_file.xs[i])]]

\* FAISSVectorStore(model_name, index_path)
Construct(model, files) == LoadIndex(NewStore(model), files)

\* texts = [chunk.content for chunk in chunks]
Texts(chunks) == [i \in 1..Len(chunks) |-> chunks[i].content]

\* Lines 148-151.
InitIndex(self, embeddings) ==
    IF self.index = PyNone
    THEN [self EXCEPT !.index = CreateIndex(embeddings[1].d),
                      !.dimension = Dimension(embeddings[1].d)]
    ELSE self

\* What a call of add_documents leaves: [raised, self, files].
AddResult(raised, self, files) == [raised |-> raised, self |-> self, files |-> files]

\* add_documents that extends chunks_metadata before it adds to the index.
AddDocuments_ExtendFirst(self, files, chunks, fail) ==
    IF chunks = <<>> THEN AddResult(FALSE, self, files)
    ELSE IF fail = "encode" THEN AddResult(TRUE, self, files)
    ELSE LET embeddings == Encode(self.model, Texts(chunks))
             self1 == InitIndex(self, embeddings)
             self2 == [self1 EXCEPT !.chunks_metadata = @ \o chunks]
         IN  IF ~WidthOk(self1.index, embeddings) THEN AddResult(TRUE, self2, files)
             ELSE LET self3 == [self2 EXCEPT !.index = IndexAdd(@, embeddings)]
                      saved == SaveIndex(self3, files, fail)
                  IN  AddResult(saved.raised, self3, saved.files)

\* add_documents that extends chunks_metadata only once the index is saved.
AddDocuments_ExtendAfterSave(self, files, chunks, fail) ==
    IF chunks = <<>> THEN AddResult(FALSE, self, files)
    ELSE IF fail = "encode" THEN AddResult(TRUE, self, files)
    ELSE LET embeddings == Encode(self.model, Texts(chunks))
             self1 == InitIndex(self, embeddings)
         IN  IF ~WidthOk(self1.index, embeddings) \/ fail = "add" THEN AddResult(TRUE, self1, files)
             ELSE LET self2 == [self1 EXCEPT !.index = IndexAdd(@, embeddings)]
                      self3 == [self2 EXCEPT !.chunks_metadata = @ \o chunks]
                      saved == SaveIndex(self3, files, fail)
                  IN  AddResult(saved.raised, IF saved.raised THEN self2 ELSE self3, saved.files)

\* add_documents.  fail: the embedding model raises ("encode"), index.add
\* raises ("add": it leaves the index as it was, as it does on a wrong
\* width), or a write of _save_index is interrupted.
AddDocuments(self, files, chunks, fail) ==
    IF chunks = <<>> THEN AddResult(FALSE, self, files)
    ELSE IF fail = "encode" THEN AddResult(TRUE, self, files)
    ELSE LET embeddings == Encode(self.model, Texts(chunks))
             self1 == InitIndex(self, embeddings)
         IN  IF ~WidthOk(self1.index, embeddings) \/ fail = "add" THEN AddResult(TRUE, self1, files)
             ELSE LET self2 == [self1 EXCEPT !.index = IndexAdd(@, embeddings)]
                      self3 == [self2 EXCEPT !.chunks_metadata = @ \o chunks]
                      saved == SaveIndex(self3, files, fail)
                  IN  AddResult(saved.raised, self3, saved.files)

\* ------------------------------------------------------- the store's inputs

\* The embedding model of the store (known by its width), and the model
\* of another width some persisted index was built with.
DefaultModel == 2

OtherModel == 3

Chunk1 == DocumentChunk("MSFT_2023_0", "MSFT", "2023", PyStr("Item 7"), "msft revenue")

Chunk2 == DocumentChunk("MSFT_2022_0", "MSFT", "2022", PyNone, "msft margin")

Chunk3 == DocumentChunk("GOOGL_2023_0", "GOOGL", "2023", PyStr("Item 7"), "goog revenue")

\* The most vectors an index holds, the largest k asked of search.
MaxVectors == 4

MaxK == 2

\* The lists of chunks add_documents is called with.
Batches ==
    {<<>>,
     <<Chunk1>>,
     <<Chunk3>>,
     <<Chunk2, Chunk3>>,
     <<Chunk1, Chunk1>>}

StoreQueries == {"revenue", "margin"}

\* The (company, year, section) filters search is called with.
FilterChoices ==
    {<<PyNone, PyNone, PyNone>>,
     <<PyStr("GOOGL"), PyStr("2023"), PyNone>>,
     <<PyNone, PyStr("2022"), PyStr("Item 7")>>,
     <<PyStr(""), PyNone, PyNone>>}

\* Where add_documents may fail besides index.add.
Failures == {"none", "encode"}

NoFiles == Files(PyNone, PyNone)

\* What _save_index leaves for an index over the chunks, of width d.
SavedPair(d, chunks) ==
    Files([d |-> d, vecs |-> Encode(d, Texts(chunks))],
          PyList([i \in 1..Len(chunks) |-> ChunkDict(chunks[i])]))

\* The content of index_path a store is constructed over: nothing, a pair
\* as saved, a pair whose counts differ, an index without its metadata, a
\* pair with an interrupted metadata file, a pair saved under another model.
InitialFiles ==
    {NoFiles,
     SavedPair(DefaultModel, <<Chunk1, Chunk2>>),
     SavedPair(DefaultModel, <<>>),
     Files(SavedPair(DefaultModel, <<Chunk1, Chunk2>>).index_file,
           SavedPair(DefaultModel, <<Chunk1>>).metadata_file),
     Files(SavedPair(DefaultModel, <<Chunk3>>).index_file,
           SavedPair(DefaultModel, <<Chunk3, Chunk2>>).metadata_file),
     Files(SavedPair(DefaultModel, <<Chunk1>>).index_file, PyNone),
     Files(SavedPair(DefaultModel, <<Chunk1>>).index_file, Partial),
     SavedPair(OtherModel, <<Chunk1>>)}

\* The threads that may run add_documents at the same time.
Writers == {"w1", "w2"}

\* A thread that is not in add_documents.
IdleWriter == [pc |-> "idle", chunks |-> <<>>, embeddings |-> <<>>]

\* Nothing was called on the store yet.
NoCall == [op |-> "none"]
\* ------------------------------------------------------- the state machine

VARIABLES
    pc,        \* where the invocation is: a node of the graph, or idle, END, raised
               \* (an exception left a node), done, crashed (one left process_query)
    state,     \* the AgentState of the running invocation
    result,    \* what process_query gave its caller
    trace,     \* the nodes run in this invocation, in order
    replies,   \* per node, the outcomes of its llm.invoke calls in this invocation
    searches,  \* the vector_store.search calls of this invocation: the
               \* arguments [query, k, filters] and the outcome
    context,   \* the context _synthesize_answer builds for its prompt, once built
    vector_store,  \* the FAISSVectorStore: [model, index, chunks_metadata, dimension]
    files,         \* the two files under index_path
    observed,      \* the last call observed and what it gave
    writers        \* per thread running add_documents, where it is and its locals

agentVars == <<pc, state, result, trace, replies, searches, context>>

storeVars == <<vector_store, files, observed, writers>>

vars == <<pc, state, result, trace, replies, searches, context, vector_store, files, observed, writers>>

NoReplies == [classify_query |-> <<>>, decompose_query |-> <<>>, synthesize_answer |-> <<>>]

\* No process_query is running.
AgentIdle ==
    /\ pc = "idle"
    /\ state = InitialState(<<>>)
    /\ result = Pending
    /\ trace = <<>>
    /\ replies = NoReplies
    /\ searches = <<>>
    /\ context = <<>>

\* A store just constructed over an empty index_path, nothing called on it.
StoreIdle ==
    /\ vector_store = Construct(DefaultModel, NoFiles)
    /\ files = NoFiles
    /\ observed = NoCall
    /\ writers = [w \in Writers |-> IdleWriter]

Init == AgentIdle /\ StoreIdle

\* A process_query that reuses the AgentState of the invocation before.
ProcessQuery_KeepState ==
    /\ pc \in {"idle", "done", "crashed"}
    /\ \E query \in Queries : state' = [state EXCEPT !.query = query]
    /\ pc' = "classify_query"
    /\ result' = Pending
    /\ trace' = <<>>
    /\ replies' = NoReplies
    /\ searches' = <<>>
    /\ context' = <<>>
    /\ UNCHANGED storeVars

\* process_query(query) is called: a fresh AgentState enters the graph at
\* its entry point.
ProcessQuery ==
    /\ pc \in {"idle", "done", "crashed"}
    /\ \E query \in Queries : state' = InitialState(query)
    /\ pc' = "classify_query"
    /\ result' = Pending
    /\ trace' = <<>>
    /\ replies' = NoReplies
    /\ searches' = <<>>
    /\ context' = <<>>
    /\ UNCHANGED storeVars

ClassifyStep ==
    /\ pc = "classify_query"
    /\ \E llm \in ClassifierReplies :
          /\ state' = ClassifyQuery(state, llm)
          /\ replies' = [replies EXCEPT !.classify_query = Append(@, llm)]
    /\ pc' = ShouldDecompose(state')
    /\ trace' = Append(trace, pc)
    /\ UNCHANGED <<result, searches, context, vector_store, files, observed, writers>>

DecomposeStep ==
    /\ pc = "decompose_query"
    /\ \E llm \in DecomposerReplies :
          /\ state' = DecomposeQuery(state, llm)
          /\ replies' = [replies EXCEPT !.decompose_query = Append(@, llm)]
    /\ pc' = "execute_searches"
    /\ trace' = Append(trace, pc)
    /\ UNCHANGED <<result, searches, context, vector_store, files, observed, writers>>

\* How many turns the loop of _execute_searches can take.
NumQueries(s) == IF Iterable(SearchQueries(s)) THEN PyLen(SearchQueries(s)) ELSE 0

\* Line 180, self.vector_store.search(query, k=5): the call and its outcome.
SearchCallOf(query, outcome) ==
    [query |-> query, k |-> SearchK, company_filter |-> PyNone, year_filter |-> PyNone,
     section_filter |-> PyNone, outcome |-> outcome]

ExecuteStep ==
    /\ pc = "execute_searches"
    /\ \E outcomes \in [1..NumQueries(state) -> SearchOutcomes] :
          LET run == ExecuteSearches(state, outcomes)
          IN  /\ state' = run.state
              /\ pc' = IF run.raised THEN "raised" ELSE "synthesize_answer"
              /\ searches' = [i \in 1..Len(run.searched) |->
                                 SearchCallOf(run.searched[i], outcomes[i])]
    /\ trace' = Append(trace, pc)
    /\ UNCHANGED <<result, replies, context, vector_store, files, observed, writers>>

SynthesizeStep ==
    /\ pc = "synthesize_answer"
    /\ \E llm \in SynthesizerReplies :
          /\ state' = SynthesizeAnswer(state, llm)
          /\ replies' = [replies EXCEPT !.synthesize_answer = Append(@, llm)]
    /\ pc' = "END"
    /\ trace' = Append(trace, pc)
    /\ UNCHANGED <<result, searches, context, vector_store, files, observed, writers>>

\* graph.invoke is over (at END, or by an exception out of a node):
\* process_query builds what it returns.
ReturnStep ==
    /\ pc \in {"END", "raised"}
    /\ \E lax \in BOOLEAN : result' = ProcessQueryResult(state.query, pc = "raised", state, lax)
    /\ pc' = IF result'.returned THEN "done" ELSE "crashed"
    /\ UNCHANGED <<state, trace, replies, searches, context, vector_store, files, observed, writers>>

Next ==
    \/ ProcessQuery
    \/ ClassifyStep
    \/ DecomposeStep
    \/ ExecuteStep
    \/ SynthesizeStep
    \/ ReturnStep

Spec == Init /\ [][Next]_vars

\* graph.invoke runs the nodes one after the other and process_query then
\* returns: a step that can be taken is taken.
LiveSpec ==
    /\ Spec
    /\ WF_vars(ClassifyStep)
    /\ WF_vars(DecomposeStep)
    /\ WF_vars(ExecuteStep)
    /\ WF_vars(SynthesizeStep)
    /\ WF_vars(ReturnStep)

\* ----------------------------------------------------------- properties

Range(f) == {f[i] : i \in DOMAIN f}

IsPrefix(a, b) == Len(a) <= Len(b) /\ SubSeq(b, 1, Len(a)) = a

IsText(s) == s \in Seq(STRING)

SimplePath == <<"classify_query", "execute_searches", "synthesize_answer">>

ComplexPath == <<"classify_query", "decompose_query", "execute_searches", "synthesize_answer">>

\* The node has run in this invocation.
Ran(node) == node \in Range(trace)

\* A value process_query may return.
IsQueryResponse(r) ==
    /\ DOMAIN r = {"query", "answer", "reasoning", "sub_queries", "sources"}
    /\ IsText(r.query) /\ IsText(r.answer) /\ IsText(r.reasoning)
    /\ \A i \in DOMAIN r.sub_queries : IsText(r.sub_queries[i])
    /\ \A i \in DOMAIN r.sources : IsText(r.sources[i].excerpt)

\* C1: every invocation of process_query reaches its end and returns a
\* QueryResponse, whatever the language model and the retriever do; no
\* exception leaves process_query.
C1_ProcessQueryReturns ==
    /\ [](pc = "done" => (result.returned /\ IsQueryResponse(result.response)
                          /\ result.response.query = state.query))
    /\ [](pc # "crashed")
    /\ (pc = "classify_query") ~> (pc = "done")

\* An exception left the graph at execute_searches, and a response was returned.
C1_Witness ==
    /\ pc = "done"
    /\ trace # <<>> /\ trace[Len(trace)] = "execute_searches"
    /\ result.returned

\* C2: the nodes run in the order classify, (decompose only under the label
\* complex), execute_searches, synthesize, and the graph ends only after all
\* of them.
C2_StageOrder ==
    /\ \/ trace = <<>>
       \/ state.query_type = S_simple /\ IsPrefix(trace, SimplePath)
       \/ state.query_type = S_complex /\ IsPrefix(trace, ComplexPath)
    /\ pc = "END" => trace \in {SimplePath, ComplexPath}
    /\ pc \in {"decompose_query", "execute_searches", "synthesize_answer"}
          => (trace \o <<pc>>) \in {SubSeq(SimplePath, 1, n) : n \in 1..3}
                                   \cup {SubSeq(ComplexPath, 1, n) : n \in 1..4}

\* A run under the label simple got to its end without decompose.
C2_Witness ==
    /\ pc = "done"
    /\ state.query_type = S_simple
    /\ trace = SimplePath

\* C3: after classify the label is "simple" or "complex"; it is "simple"
\* exactly when the call returned and its trimmed, lower-cased text is
\* "simple".
C3_ClassifierLabel ==
    Ran("classify_query") =>
        LET reply == replies.classify_query[1]
        IN  /\ state.query_type \in {S_simple, S_complex}
            /\ state.query_type = S_simple
                  <=> (~reply.raised /\ Lower(Strip(reply.content)) = S_simple)

\* The label simple came from a reply that is not literally "simple".
C3_Witness ==
    /\ Ran("classify_query")
    /\ ~replies.classify_query[1].raised
    /\ replies.classify_query[1].content # S_simple
    /\ state.query_type = S_simple

\* The decomposer's call raised, or json.loads refused the text it was given.
DecompositionFailed ==
    /\ Ran("decompose_query")
    /\ LET reply == replies.decompose_query[1]
       IN  reply.raised \/ ~JsonLoads(StripJsonFence(Strip(reply.content))).ok

IsDecompositionError(e) == e.t = "str" /\ StartsWith(e.s, DecompositionErrorPrefix)

\* C4: when the decomposer's call fails or its response does not parse,
\* sub_queries is [query], a decomposition error is recorded, and the run
\* goes on to execute_searches and beyond.
C4_DecomposeFallback ==
    DecompositionFailed =>
        /\ state.sub_queries = PyList(<<PyStr(state.query)>>)
        /\ IsDecompositionError(state.error)
        /\ pc \in {"execute_searches", "synthesize_answer", "END", "done"}
        /\ pc = "done" => Ran("synthesize_answer")

\* A reply that did not parse, and the run is past execute_searches.
C4_Witness ==
    /\ DecompositionFailed
    /\ ~replies.decompose_query[1].raised
    /\ pc = "synthesize_answer"
    /\ state.sub_queries = PyList(<<PyStr(state.query)>>)

\* C5: the list execute_searches runs over is non-empty when it starts, and
\* the returned response has a non-empty sub_queries.
C5_SubQueriesNonEmpty ==
    /\ pc = "execute_searches" => Sized(SearchQueries(state)) /\ PyLen(SearchQueries(state)) > 0
    /\ (pc = "done" /\ result.returned) => Len(result.response.sub_queries) > 0

\* The entry search_results holds for the i-th search is that search's,
\* unless a later search had the same key.
LastOfKey(i) == \A j \in (i + 1)..Len(searches) : ~KeyEq(searches[j].query, searches[i].query)

\* C6: execute_searches never raises; every query of its list is searched;
\* a search that raised leaves the empty list under its query.
C6_SearchFailureIsolated ==
    Ran("execute_searches") =>
        /\ pc # "raised"
        /\ Len(searches) = PyLen(SearchQueries(state))
        /\ \A i \in 1..Len(searches) :
              (searches[i].outcome.raised /\ LastOfKey(i))
                  => /\ HasKey(state.search_results, searches[i].query)
                     /\ DictGet(state.search_results, searches[i].query, <<>>) = <<>>

\* C7: after synthesize, final_answer and reasoning are strings (and
\* synthesize has not raised).
C7_SynthesizeTotal ==
    Ran("synthesize_answer") =>
        /\ state.final_answer.t = "str"
        /\ state.reasoning.t = "str"

\* The text synthesize parses: the reply after the fence clean-up.
SynthContent == CleanContent(replies.synthesize_answer[1].content)

\* The synthesizer's call returned and json.loads refused its content.
StrictParseFailed ==
    /\ Ran("synthesize_answer")
    /\ ~replies.synthesize_answer[1].raised
    /\ ~JsonLoads(SynthContent).ok

\* Fallback 1 got an object out of the content.
ObjectExtracted ==
    /\ JsonMatch(SynthContent).found
    /\ JsonLoads(JsonMatch(SynthContent).text).ok

SomeResult == \E i \in 1..Len(state.search_results) : state.search_results[i].v # <<>>

\* C8: strict parsing failed, no object-shaped substring was found, and the
\* response is longer than the threshold: the answer is the trimmed
\* response, cut to the length bound, and the reasoning says so.
C8_RawResponseUsed ==
    (StrictParseFailed /\ ~JsonMatch(SynthContent).found /\ Len(Strip(SynthContent)) > RawMinLen)
        => /\ state.final_answer = PyStr(Prefix(Strip(SynthContent), RawMaxLen))
           /\ state.reasoning = PyStr(MsgDirectLLM)

\* The first result of the first query of search_results that has one.
FirstSnippet ==
    LET sr == state.search_results
        i == CHOOSE i \in 1..Len(sr) : sr[i].v # <<>> /\ \A j \in 1..(i - 1) : sr[j].v = <<>>
    IN  [query |-> sr[i].k, content |-> sr[i].v[1].content]

\* C9: the response is empty or too short (and nothing was parsed out of
\* it) and some query has results: the answer is composed from the first
\* snippet of the first query with results, the reasoning is the
\* synthesis-failure one.
C9_SnippetFallback ==
    (StrictParseFailed /\ ~ObjectExtracted /\ Len(Strip(SynthContent)) <= RawMinLen /\ SomeResult)
        => /\ state.final_answer =
                 PyStr(MsgBasedOnData \o <<"F","r","o","m"," ","s","e","a","r","c","h"," ","'">> \o PyFormat(FirstSnippet.query)
                       \o <<"'",":"," ">> \o Prefix(FirstSnippet.content, SampleLen) \o <<".",".","."," ">>)
           /\ state.reasoning = PyStr(MsgGeneratedFromSearch)

\* C10: strict parsing failed, nothing was parsed out of the content, the
\* content is too short to stand as the answer, and no query has a result:
\* the answer says that nothing relevant was found, the reasoning that no
\* search results were available.
C10_NoResultsFallback ==
    (StrictParseFailed /\ ~ObjectExtracted /\ Len(Strip(SynthContent)) <= RawMinLen /\ ~SomeResult)
        => /\ state.final_answer = PyStr(MsgUnableToFind)
           /\ state.reasoning = PyStr(MsgNoSearchResults)


\* ------------------------------------------- properties: errors, sources

\* The step of synthesize_answer whose model call raised.
SynthesizeRaisedStep ==
    /\ pc = "synthesize_answer" /\ pc' = "END"
    /\ replies'.synthesize_answer # <<>>
    /\ replies'.synthesize_answer[1].raised

\* C11: when the synthesizer's model call raises, final_answer is the
\* generic failure message, reasoning records the exception, and error is
\* set to the synthesis error only if it was not set before; an error left
\* by classify or decompose stays as it was.
C11_SynthesisErrorKeepsEarlier ==
    [][SynthesizeRaisedStep =>
          /\ state'.final_answer = PyStr(MsgUnableToSynthesize)
          /\ state'.reasoning = PyStr(MsgSynthesisError("ProviderError"))
          /\ state'.error = IF state.error = PyNone
                            THEN PyStr(MsgSynthesisError("ProviderError"))
                            ELSE state.error]_vars

\* The synthesizer's call raised after decompose had recorded its error,
\* and the decomposition error is still there.
C11_Witness ==
    /\ pc = "END"
    /\ replies.synthesize_answer[1].raised
    /\ DecompositionFailed
    /\ IsDecompositionError(state.error)
    /\ state.final_answer = PyStr(MsgUnableToSynthesize)

\* The classifier's call raised, or its text is neither label (the label
\* then is the default).
ClassifierFellBack ==
    /\ Ran("classify_query")
    /\ LET reply == replies.classify_query[1]
       IN  reply.raised \/ Lower(Strip(reply.content)) \notin {S_simple, S_complex}

\* The synthesizer's call raised, or strict parsing refused its content.
SynthesizerFellBack ==
    /\ Ran("synthesize_answer")
    /\ (replies.synthesize_answer[1].raised \/ ~JsonLoads(SynthContent).ok)

\* C12: a run in which a stage fell back on its default (its call failed or
\* its content did not parse) ends with a non-null state.error.
C12_FallbackRecordsError ==
    (pc \in {"END", "done"} /\ (ClassifierFellBack \/ DecompositionFailed \/ SynthesizerFellBack))
        => state.error # PyNone

\* How many (chunk, score) pairs the searches of the list returned.
RECURSIVE TotalPairs(_)
TotalPairs(calls) ==
    IF calls = <<>> THEN 0
    ELSE Len(calls[1].outcome.hits) + TotalPairs(Tail(calls))

\* execute_searches ran and returned its state to the graph.
ExecuteReturned == pc = "synthesize_answer" \/ Ran("synthesize_answer")

\* C13: after execute_searches, sources has one entry per (chunk, score)
\* pair returned by the searches of this run, a query searched twice
\* counting twice.
C13_SourcesCountPairs ==
    ExecuteReturned => Len(state.sources) = TotalPairs(searches)

\* Two sub-queries of the same text, both with results: one key in
\* search_results, the pairs of both searches in sources.
C13_Witness ==
    /\ pc = "synthesize_answer"
    /\ Len(searches) = 2
    /\ searches[1].query = searches[2].query
    /\ Len(searches[1].outcome.hits) > 0 /\ Len(searches[2].outcome.hits) > 0
    /\ Len(state.search_results) = 1
    /\ Len(state.sources) = Len(searches[1].outcome.hits) + Len(searches[2].outcome.hits)

\* ------------------------------------------- the store's state machine

\* The store is constructed over what index_path holds.
StoreInit ==
    /\ AgentIdle
    /\ files \in InitialFiles
    /\ vector_store = Construct(DefaultModel, files)
    /\ observed = NoCall
    /\ writers = [w \in Writers |-> IdleWriter]

\* The process is started again: a new store is constructed over the files.
Restart ==
    /\ \A w \in Writers : writers[w].pc = "idle"
    /\ vector_store' = Construct(DefaultModel, files)
    /\ observed' = [op |-> "construct"]
    /\ UNCHANGED <<files, writers>>
    /\ UNCHANGED agentVars

\* The vectors the index holds (none without an index).
Vectors(self) == IF self.index = PyNone THEN <<>> ELSE self.index.vecs

\* One call of add_documents, run from beginning to end.
AddCall ==
    /\ \A w \in Writers : writers[w].pc = "idle"
    /\ \E chunks \in Batches, fail \in Failures :
          /\ Len(Vectors(vector_store)) + Len(chunks) <= MaxVectors
          /\ LET r == AddDocuments(vector_store, files, chunks, fail)
             IN  /\ vector_store' = r.self
                 /\ files' = r.files
                 /\ observed' = [op |-> "add", n |-> Len(chunks), fail |-> fail,
                                 raised |-> r.raised]
    /\ UNCHANGED writers
    /\ UNCHANGED agentVars

\* Some thread is inside add_documents.
AddInFlight == \E w \in Writers : writers[w].pc \notin {"idle", "returned"}

\* One call of search; what it saw of the store is kept with its result.
SearchCall ==
    /\ \E query \in StoreQueries :
       \E order \in Rankings([vecs |-> Vectors(vector_store)], query) :
       \E k \in 1..MaxK, f \in FilterChoices :
          observed' = [op |-> "search", query |-> query, k |-> k,
                       company_filter |-> f[1], year_filter |-> f[2], section_filter |-> f[3],
                       result |-> Search(vector_store, query, k, f[1], f[2], f[3], order),
                       ntotal |-> Len(Vectors(vector_store)),
                       nmeta |-> Len(vector_store.chunks_metadata),
                       in_flight |-> AddInFlight]
    /\ UNCHANGED <<vector_store, files, writers>>
    /\ UNCHANGED agentVars

StoreNext ==
    \/ Restart
    \/ AddCall
    \/ SearchCall

StoreSpec == StoreInit /\ [][StoreNext]_vars

\* ----------------------------------------------- properties of the store

\* The last call on the store was a search that returned.
SearchReturned == observed.op = "search" /\ ~observed.result.raised

\* The chunk meets the filters that were supplied (None and the empty
\* string supply none).
MeetsFilters(chunk) ==
    /\ Truthy(observed.company_filter) => PyStr(chunk.metadata.company) = observed.company_filter
    /\ Truthy(observed.year_filter) => PyStr(chunk.metadata.year) = observed.year_filter
    /\ Truthy(observed.section_filter) => chunk.section = observed.section_filter

ScoreAt(p) == Similarity(observed.query, vector_store.index.vecs[p].of)

\* The candidates of the observed search are the n best positions of the
\* index, best first.
TopCandidates(n) ==
    LET c == observed.result.candidates
    IN  /\ Len(c) = n
        /\ \A i \in 1..Len(c) : c[i].idx \in 1..observed.ntotal /\ c[i].score = ScoreAt(c[i].idx)
        /\ \A i, j \in 1..Len(c) : i < j => (c[i].idx # c[j].idx /\ c[i].score >= c[j].score)
        /\ \A p \in 1..observed.ntotal :
              (\A i \in 1..Len(c) : c[i].idx # p) => \A i \in 1..Len(c) : c[i].score >= ScoreAt(p)

\* The candidate has a chunk and the chunk meets the filters.
Survives(c) ==
    /\ c.idx <= Len(vector_store.chunks_metadata)
    /\ MeetsFilters(vector_store.chunks_metadata[c.idx])

\* C15: a search returns at most k pairs: the first k, in rank order, of
\* the candidates that pass the filters among the min(3k, index size) best
\* of the index, and fewer when fewer pass.
C15_FirstKOfOverFetch ==
    (SearchReturned /\ observed.result.encoded) =>
        LET hits == observed.result.hits
            survivors == SelectSeq(observed.result.candidates, Survives)
        IN  /\ Len(hits) <= observed.k
            /\ TopCandidates(Min(OverFetch * observed.k, observed.ntotal))
            /\ Len(hits) = Min(observed.k, Len(survivors))
            /\ \A i \in 1..Len(hits) :
                  /\ hits[i].chunk = vector_store.chunks_metadata[survivors[i].idx]
                  /\ hits[i].score = survivors[i].score

\* A search with k = 1 returned nothing although a chunk that meets its
\* filters is in the store, below the 3k best.
C15_Witness ==
    /\ SearchReturned /\ observed.result.encoded
    /\ observed.k = 1
    /\ observed.result.hits = <<>>
    /\ Len(observed.result.candidates) = OverFetch
    /\ \E p \in 1..Len(vector_store.chunks_metadata) :
          /\ MeetsFilters(vector_store.chunks_metadata[p])
          /\ \A i \in 1..Len(observed.result.candidates) : observed.result.candidates[i].idx # p

\* C16: on a store without an index, or with an index of zero vectors, a
\* search returns the empty list, does not raise and does not call the
\* embedding model.
C16_EmptyIndexSearch ==
    (observed.op = "search" /\ observed.ntotal = 0) =>
        /\ ~observed.result.raised
        /\ observed.result.hits = <<>>
        /\ ~observed.result.encoded

\* A search on a store whose index exists and holds no vector.
C16_Witness ==
    /\ observed.op = "search"
    /\ vector_store.index # PyNone
    /\ observed.ntotal = 0
    /\ observed.result.hits = <<>>

\* The files hold an index and a metadata list of different lengths.
MismatchedPair ==
    /\ files.index_file \notin {PyNone, Partial}
    /\ files.metadata_file \notin {PyNone, Partial}
    /\ Len(files.index_file.vecs) # Len(files.metadata_file.xs)

\* C17: a store constructed over a pair whose counts differ has refused the
\* pair: it has no index and no metadata.
C17_MismatchedPairRefused ==
    (observed.op = "construct" /\ MismatchedPair) =>
        /\ vector_store.index = PyNone
        /\ vector_store.chunks_metadata = <<>>

\* The step is a call of add_documents whose embeddings are not of the
\* index's width.
MismatchedAddStep ==
    /\ observed'.op = "add" /\ observed'.n > 0 /\ observed'.fail = "none"
    /\ vector_store.index # PyNone
    /\ vector_store.index.d # vector_store.model

\* C18: an add_documents call whose embeddings are not of the index's width
\* fails and leaves the index, chunks_metadata and the dimension as they
\* were.
C18_MismatchedAddLeavesStore ==
    [][MismatchedAddStep =>
          /\ observed'.raised
          /\ vector_store'.index = vector_store.index
          /\ vector_store'.chunks_metadata = vector_store.chunks_metadata
          /\ vector_store'.dimension = vector_store.dimension]_vars

\* An add on a store loaded from an index of another width has failed, the
\* loaded vector and chunk still there.
C18_Witness ==
    /\ observed.op = "add" /\ observed.n > 0 /\ observed.fail = "none"
    /\ observed.raised
    /\ vector_store.index # PyNone
    /\ vector_store.index.d # vector_store.model
    /\ NTotal(vector_store.index) = 1 /\ Len(vector_store.chunks_metadata) = 1

\* ------------------------------------ add_documents run by several threads
\* process_task is a plain function given to BackgroundTasks, so each
\* /process request runs it on a worker thread, beside the event loop that
\* serves /query and /search; add_documents takes no lock, and a thread may
\* be suspended between any two of its statements.

\* The store is constructed over no files or over a pair as saved.
ConcInit ==
    /\ AgentIdle
    /\ files \in {NoFiles, SavedPair(DefaultModel, <<Chunk1, Chunk2>>)}
    /\ vector_store = Construct(DefaultModel, files)
    /\ observed = NoCall
    /\ writers = [w \in Writers |-> IdleWriter]

\* The lists the concurrent calls of add_documents are given.
ConcurrentBatches == {<<Chunk1>>, <<Chunk2, Chunk3>>}

\* The chunks of the calls that have begun and not yet added to the index.
RECURSIVE PendingChunks(_)
PendingChunks(W) ==
    IF W = {} THEN 0
    ELSE LET w == CHOOSE w \in W : TRUE
         IN  (IF writers[w].pc \in {"encoded", "create", "add"} THEN Len(writers[w].chunks) ELSE 0)
             + PendingChunks(W \ {w})

\* Lines 132-145: a thread enters add_documents with a non-empty list and
\* computes the embeddings.
BeginAdd(w) ==
    /\ writers[w].pc = "idle"
    /\ \E chunks \in ConcurrentBatches :
          /\ Len(Vectors(vector_store)) + PendingChunks(Writers) + Len(chunks) <= MaxVectors
          /\ writers' = [writers EXCEPT ![w] = [pc |-> "encoded", chunks |-> chunks,
                                                embeddings |-> Encode(vector_store.model, Texts(chunks))]]
    /\ UNCHANGED <<vector_store, files, observed>>
    /\ UNCHANGED agentVars

\* Line 148: the test of self.index.
CheckIndex(w) ==
    /\ writers[w].pc = "encoded"
    /\ writers' = [writers EXCEPT ![w].pc = IF vector_store.index = PyNone THEN "create" ELSE "add"]
    /\ UNCHANGED <<vector_store, files, observed>>
    /\ UNCHANGED agentVars

\* Lines 149-151: a new index replaces self.index.
CreateStep(w) ==
    /\ writers[w].pc = "create"
    /\ vector_store' = [vector_store EXCEPT
                           !.index = CreateIndex(writers[w].embeddings[1].d),
                           !.dimension = Dimension(writers[w].embeddings[1].d)]
    /\ writers' = [writers EXCEPT ![w].pc = "add"]
    /\ UNCHANGED <<files, observed>>
    /\ UNCHANGED agentVars

\* Line 154: self.index.add, which raises on a wrong width.
AddStep(w) ==
    /\ writers[w].pc = "add"
    /\ IF WidthOk(vector_store.index, writers[w].embeddings)
       THEN /\ vector_store' = [vector_store EXCEPT !.index = IndexAdd(@, writers[w].embeddings)]
            /\ writers' = [writers EXCEPT ![w].pc = "extend"]
       ELSE /\ writers' = [writers EXCEPT ![w] = [pc |-> "returned", chunks |-> <<>>,
                                                  embeddings |-> <<>>]]
            /\ UNCHANGED vector_store
    /\ UNCHANGED <<files, observed>>
    /\ UNCHANGED agentVars

\* Line 157: self.chunks_metadata.extend(chunks).
ExtendStep(w) ==
    /\ writers[w].pc = "extend"
    /\ vector_store' = [vector_store EXCEPT !.chunks_metadata = @ \o writers[w].chunks]
    /\ writers' = [writers EXCEPT ![w].pc = "save"]
    /\ UNCHANGED <<files, observed>>
    /\ UNCHANGED agentVars

\* Line 160: self._save_index(), and the call returns.
SaveStep(w) ==
    /\ writers[w].pc = "save"
    /\ files' = SaveIndex(vector_store, files, "none").files
    /\ writers' = [writers EXCEPT ![w] = [pc |-> "returned", chunks |-> <<>>, embeddings |-> <<>>]]
    /\ UNCHANGED <<vector_store, observed>>
    /\ UNCHANGED agentVars

\* A /query request searches as _execute_searches does: k = 5, no filter.
QuerySearch ==
    /\ \E query \in StoreQueries :
       \E order \in Rankings([vecs |-> Vectors(vector_store)], query) :
          observed' = [op |-> "search", query |-> query, k |-> SearchK,
                       company_filter |-> PyNone, year_filter |-> PyNone, section_filter |-> PyNone,
                       result |-> Search(vector_store, query, SearchK, PyNone, PyNone, PyNone, order),
                       ntotal |-> Len(Vectors(vector_store)),
                       nmeta |-> Len(vector_store.chunks_metadata),
                       in_flight |-> AddInFlight]
    /\ UNCHANGED <<vector_store, files, writers>>
    /\ UNCHANGED agentVars

ConcNext ==
    \/ \E w \in Writers : BeginAdd(w)
    \/ \E w \in Writers : CheckIndex(w)
    \/ \E w \in Writers : CreateStep(w)
    \/ \E w \in Writers : AddStep(w)
    \/ \E w \in Writers : ExtendStep(w)
    \/ \E w \in Writers : SaveStep(w)
    \/ QuerySearch

ConcSpec == ConcInit /\ [][ConcNext]_vars

\* C19: a search made while an add_documents call is in flight sees as many
\* vectors in the index as entries in chunks_metadata.
C19_NoHalfUpdatedSearch ==
    (observed.op = "search" /\ observed.in_flight) => observed.ntotal = observed.nmeta

\* The i-th vector of the index is the embedding of the i-th chunk of
\* chunks_metadata, for every i.
Aligned(self) ==
    /\ Len(Vectors(self)) = Len(self.chunks_metadata)
    /\ \A i \in 1..Len(self.chunks_metadata) :
          Vectors(self)[i] = Encode(self.model, <<self.chunks_metadata[i].content>>)[1]

\* C20: when two add_documents calls have run at the same time and both
\* have returned, the index and chunks_metadata are aligned.
C20_ConcurrentAddsAligned ==
    (\A w \in Writers : writers[w].pc = "returned") => Aligned(vector_store)

\* --------------------------------------------- the files across failures

\* Where a save may stop.
WriteFailures == {"none", "write_index", "write_metadata", "between_writes"}

\* The lists of chunks add_documents is called with while saves may fail.
PersistBatches == {<<>>, <<Chunk1>>, <<Chunk2, Chunk3>>}

\* A store constructed over an empty index_path (a cold start).
PersistInit == AgentIdle /\ StoreIdle

\* One call of add_documents whose _save_index may be interrupted.
PersistAdd ==
    /\ \E chunks \in PersistBatches, fail \in WriteFailures :
          /\ Len(Vectors(vector_store)) + Len(chunks) <= MaxVectors
          /\ Len(vector_store.chunks_metadata) + Len(chunks) <= MaxVectors
          /\ LET r == AddDocuments(vector_store, files, chunks, fail)
             IN  /\ vector_store' = r.self
                 /\ files' = r.files
                 /\ observed' = [op |-> "add", n |-> Len(chunks), fail |-> fail,
                                 raised |-> r.raised]
    /\ UNCHANGED writers
    /\ UNCHANGED agentVars

PersistNext ==
    \/ PersistAdd
    \/ Restart

PersistSpec == PersistInit /\ [][PersistNext]_vars

\* The two files are both absent, or an index and a metadata list of the
\* same length.
MatchedOrAbsent ==
    \/ files = NoFiles
    \/ /\ files.index_file \notin {PyNone, Partial}
       /\ files.metadata_file \notin {PyNone, Partial}
       /\ Len(files.index_file.vecs) = Len(files.metadata_file.xs)

\* C21: at every moment the persisted index file and metadata file are both
\* absent or a matched pair of the same number of entries.
C21_FilesMatchedOrAbsent == MatchedOrAbsent

\* C22: no chunk_id occurs twice among the chunks of the store.
C22_ChunkIdsUnique ==
    \A i, j \in 1..Len(vector_store.chunks_metadata) :
        i # j => vector_store.chunks_metadata[i].chunk_id # vector_store.chunks_metadata[j].chunk_id

\* ----------------------------------------------- invocations one after another

\* graph.invoke as one function: the nodes composed as _build_graph wires
\* them, on the replies c, d, s of the language model to the three prompts
\* and the outcomes of the searches.
GraphInvoke(query, c, d, outcomes, s) ==
    LET s1 == ClassifyQuery(InitialState(query), c)
        s2 == IF ShouldDecompose(s1) = "decompose_query" THEN DecomposeQuery(s1, d) ELSE s1
        ex == ExecuteSearches(s2, outcomes)
    IN  [raised |-> ex.raised,
         state |-> IF ex.raised THEN ex.state ELSE SynthesizeAnswer(ex.state, s)]

\* The first invocation served by the agent: a complex question answered
\* from two sub-queries.
FirstReplies ==
    [classify_query |-> <<LlmReturns(S_complex)>>,
     decompose_query |-> <<LlmReturns(TwoSubQueries)>>,
     synthesize_answer |-> <<LlmReturns(GoodAnswer)>>]

FirstOutcomes == [i \in 1..2 |-> SearchReturns(Ranking(MaxHits))]

\* The agent has served one invocation and is called again.
SessionInit ==
    \E c \in {FirstReplies.classify_query[1]}, d \in {FirstReplies.decompose_query[1]},
       s \in {FirstReplies.synthesize_answer[1]}, outcomes \in {FirstOutcomes} :
    \E s1 \in {ClassifyQuery(InitialState(Query1), c)} :
    \E s2 \in {DecomposeQuery(s1, d)} :
    \E ex \in {ExecuteSearches(s2, outcomes)} :
    \E s4 \in {SynthesizeAnswer(ex.state, s)} :
        /\ pc = "done"
        /\ state = s4
        /\ result = ProcessQueryResult(Query1, FALSE, s4, TRUE)
        /\ trace = ComplexPath
        /\ replies = FirstReplies
        /\ searches = [i \in 1..2 |-> SearchCallOf(ex.searched[i], outcomes[i])]
        /\ context = <<>>
        /\ StoreIdle

SessionSpec == SessionInit /\ [][Next]_vars

\* The reply logged for a node (any reply, if the node made no call).
ReplyOf(node) == IF replies[node] = <<>> THEN LlmRaises ELSE replies[node][1]

\* The invocation computed again from its own query, the replies it got
\* and the outcomes of its searches, and from nothing else.
Replayed ==
    GraphInvoke(state.query, ReplyOf("classify_query"), ReplyOf("decompose_query"),
                [i \in 1..Len(searches) |-> searches[i].outcome],
                ReplyOf("synthesize_answer"))

C24_OneSearchPerQuery ==
    ExecuteReturned =>
        /\ \A i \in 1..Len(searches) :
              /\ searches[i].k = 5
              /\ searches[i].company_filter = PyNone
              /\ searches[i].year_filter = PyNone
              /\ searches[i].section_filter = PyNone
        /\ state.query_type = S_simple =>
              /\ Len(searches) = 1
              /\ searches[1].query = PyStr(state.query)
              /\ state.sub_queries = PyList(<<PyStr(state.query)>>)
        /\ state.query_type # S_simple =>
              /\ Len(searches) = PyLen(state.sub_queries)
              /\ \A i \in 1..Len(searches) : searches[i].query = Elements(state.sub_queries)[i]

\* A complex run of three sub-queries, all searched.
C24_Witness ==
    /\ pc = "synthesize_answer"
    /\ state.query_type = S_complex
    /\ PyLen(state.sub_queries) = 3
    /\ Len(searches) = 3

\* The results search_results must hold for the i-th search.
ResultsOf(i) ==
    IF searches[i].outcome.raised THEN <<>> ELSE SearchData(searches[i].outcome.hits)

\* C25: a text that occurs twice among the sub-queries is searched once per
\* occurrence, search_results holds under it the results of its last
\* occurrence, and has one key per distinct text.
C25_RepeatedSubQuery ==
    ExecuteReturned =>
        /\ Len(searches) = PyLen(state.sub_queries)
        /\ \A i \in 1..Len(searches) :
              LastOfKey(i) =>
                  /\ HasKey(state.search_results, searches[i].query)
                  /\ DictGet(state.search_results, searches[i].query, <<>>) = ResultsOf(i)
        /\ Len(state.search_results) = Cardinality({i \in 1..Len(searches) : LastOfKey(i)})

\* The same text searched twice with different results: one key, holding
\* the results of the second search.
C25_Witness ==
    /\ pc = "synthesize_answer"
    /\ Len(searches) = 2
    /\ searches[1].query = searches[2].query
    /\ Len(searches[1].outcome.hits) = 2 /\ Len(searches[2].outcome.hits) = 1
    /\ Len(state.search_results) = 1
    /\ Len(state.search_results[1].v) = 1

\* The Source records of the searches from the i-th on, in order.
RECURSIVE SourcesFrom(_)
SourcesFrom(i) ==
    IF i > Len(searches) THEN <<>>
    ELSE (IF searches[i].outcome.raised THEN <<>> ELSE HitSources(searches[i].outcome.hits))
             \o SourcesFrom(i + 1)

\* Where the block of the i-th search starts in sources, less one.
BlockOffset(i) == TotalPairs(SubSeq(searches, 1, i - 1))

\* C26: sources is the concatenation, in the order the sub-queries were
\* searched, of the Source records of each search, and inside the block of
\* one search the similarity scores do not increase.
C26_SourcesInSearchOrder ==
    ExecuteReturned =>
        /\ state.sources = SourcesFrom(1)
        /\ \A i \in 1..Len(searches) :
              \A a, b \in 1..Len(searches[i].outcome.hits) :
                  a < b => state.sources[BlockOffset(i) + a].similarity_score
                              >= state.sources[BlockOffset(i) + b].similarity_score

\* Two searches with results, the first with more than the second.
C26_Witness ==
    /\ pc = "synthesize_answer"
    /\ Len(searches) = 2
    /\ searches[1].query # searches[2].query
    /\ Len(searches[1].outcome.hits) = 2 /\ Len(searches[2].outcome.hits) = 1
    /\ Len(state.sources) = 3

\* The simple run of the same query over the same search outcome.
SimpleRun ==
    ExecuteSearches(ClassifyQuery(InitialState(state.query), LlmReturns(S_simple)),
                    [i \in 1..Len(searches) |-> searches[i].outcome])

\* C27: a complex run whose decomposition failed has the sub_queries,
\* search_results and sources of the simple run of the same query over the
\* same retriever.
C27_FallbackCoincidesWithSimple ==
    (DecompositionFailed /\ ExecuteReturned) =>
        /\ Len(searches) = 1
        /\ ~SimpleRun.raised
        /\ state.sub_queries = SimpleRun.state.sub_queries
        /\ state.search_results = SimpleRun.state.search_results
        /\ state.sources = SimpleRun.state.sources

\* The decomposer's call raised, and the one search gave results.
C27_Witness ==
    /\ DecompositionFailed
    /\ replies.decompose_query[1].raised
    /\ pc = "synthesize_answer"
    /\ Len(state.sources) = MaxHits

\* The calls of the language model in this invocation.
ModelCalls ==
    Len(replies.classify_query) + Len(replies.decompose_query) + Len(replies.synthesize_answer)

FenceBody(content, open) ==
    SubSeq(content, Len(open) + 2, Len(content) - Len(Fence) - 1)

\* content is body wrapped in a code fence opened by `open`.
Fenced(content, open) ==
    /\ Len(content) >= Len(open) + Len(Fence) + 2
    /\ content = open \o <<"\n">> \o FenceBody(content, open) \o <<"\n">> \o Fence

IsStringArray(v) == v.t = "list" /\ \A i \in 1..Len(v.xs) : v.xs[i].t = "str"

\* C30: a reply that is a JSON array of strings inside a code fence, with or
\* without the json tag, gives that array as sub_queries.
C30_FenceStripped ==
    (Ran("decompose_query") /\ ~replies.decompose_query[1].raised) =>
        \A open \in {FenceJson, Fence} :
            LET content == replies.decompose_query[1].content
                body == JsonLoads(FenceBody(content, open))
            IN  (Fenced(content, open) /\ body.ok /\ IsStringArray(body.v))
                    => state.sub_queries = body.v

\* ------------------------------------------------- the synthesizer's context

\* The retriever returns at most MaxResults pairs per search here
\* (MaxResults <= k).
MaxResults == 4

\* The chunk ranked i-th, its rank in its text; every second one is longer
\* than the context keeps.
ContextChunkNo(i) ==
    [ChunkNo(i) EXCEPT !.content = IF i % 2 = 0
                                   THEN <<"S","e","g","m","e","n","t"," ">> \o IndexText(i) \o <<" ">> \o Pad(ContextLimit)
                                   ELSE <<"S","e","g","m","e","n","t"," ">> \o IndexText(i)]

ContextRanking(n) == [i \in 1..n |-> [chunk |-> ContextChunkNo(i), score |-> 100 - 10 * i]]

\* A complex run has reached synthesize_answer, the searches of its two or
\* three sub-queries having returned up to MaxResults results each.
ContextInit ==
    \E c \in {LlmReturns(S_complex)},
       d \in {LlmReturns(TwoSubQueries), LlmReturns(<<"[","\"","a","\"",","," ","\"","b","\"",","," ","\"","c","\"","]">>)} :
    \E s1 \in {ClassifyQuery(InitialState(Query2), c)} :
    \E s2 \in {DecomposeQuery(s1, d)} :
    \E outcomes \in [1..NumQueries(s2) -> {SearchReturns(ContextRanking(n)) : n \in 0..MaxResults}] :
    \E ex \in {ExecuteSearches(s2, outcomes)} :
        /\ pc = "synthesize_answer"
        /\ state = ex.state
        /\ result = Pending
        /\ trace = <<"classify_query", "decompose_query", "execute_searches">>
        /\ replies = [NoReplies EXCEPT !.classify_query = <<c>>, !.decompose_query = <<d>>]
        /\ searches = [i \in 1..Len(ex.searched) |-> SearchCallOf(ex.searched[i], outcomes[i])]
        /\ context = <<>>
        /\ StoreIdle

\* Lines 212-220 of _synthesize_answer: the node builds the context of its
\* prompt from search_results.
BuildContext ==
    /\ pc = "synthesize_answer"
    /\ context = <<>>
    /\ context' = SynthesisContext(state)
    /\ UNCHANGED <<pc, state, result, trace, replies, searches>>
    /\ UNCHANGED storeVars

ContextSpec == ContextInit /\ [][BuildContext]_vars

\* Where the label of the i-th item of search_results stands in the context.
LabelAt(i) == Find(context, <<"S","e","a","r","c","h",":"," ">> \o PyFormat(state.search_results[i].k), 1)

\* What the context must show of a result kept at place j.
ShownAs(j, found) ==
    <<"R","e","s","u","l","t"," ">> \o IndexText(j) \o <<":"," ">>
        \o SubSeq(found.content, 1, IF Len(found.content) < 500 THEN Len(found.content) ELSE 500)
        \o <<".",".",".">>

\* C29: the context holds, for each key of search_results, a label with the
\* sub-query's text, followed by its first results, three at most, each cut
\* to its first 500 characters; no result after the third is in it, and no
\* 501st character of a result.
C29_ContextBounded ==
    context # <<>> =>
        \A i \in 1..Len(state.search_results) :
            LET results == state.search_results[i].v
            IN  /\ LabelAt(i) > 0
                /\ \A j \in 1..Len(results) :
                      /\ (j <= 3) => (Find(context, ShownAs(j, results[j]), LabelAt(i)) > 0)
                      /\ (j > 3) => (Find(context, SubSeq(results[j].content, 1, 9), 1) = 0)
                      /\ (Len(results[j].content) > 500)
                            => (Find(context, SubSeq(results[j].content, 1, 501), 1) = 0)

\* Both sub-queries with four results: the fourth is left out, the second
\* is cut.
C29_Witness ==
    /\ context # <<>>
    /\ Len(state.search_results) = 2
    /\ \A i \in 1..2 : Len(state.search_results[i].v) = 4
    /\ Len(state.search_results[1].v[2].content) > 500
    /\ Find(context, ShownAs(3, state.search_results[1].v[3]), 1) > 0

\* ------------------------------------------- sub_queries, errors, responses

\* C32: once decompose has run, sub_queries is a list of strings.
C32_SubQueriesAreStrings ==
    Ran("decompose_query") => IsStringArray(state.sub_queries)

\* The except branch of _decompose_query was taken.
DecomposerFellBack ==
    /\ Ran("decompose_query")
    /\ LET reply == replies.decompose_query[1]
       IN  \/ reply.raised
           \/ LET parsed == JsonLoads(StripJsonFence(Strip(reply.content)))
              IN  ~parsed.ok \/ ~Sized(parsed.v)

ClassifierRaised == Ran("classify_query") /\ replies.classify_query[1].raised

ClassificationErrorPrefix == <<"C","l","a","s","s","i","f","i","c","a","t","i","o","n"," ","e","r","r","o","r",":",
    " ">>

SynthesisErrorPrefix == <<"S","y","n","t","h","e","s","i","s"," ","e","r","r","o","r",":"," ">>

ErrorProcessingPrefix == <<"E","r","r","o","r"," ","p","r","o","c","e","s","s","i","n","g"," ","q","u","e","r",
    "y",":"," ">>

ErrorStartsWith(prefix) == state.error # PyNone /\ StartsWith(state.error.s, prefix)

\* C34: error is null or one message; after a failed decomposition it is
\* the decomposition error, whatever classify recorded before and whatever
\* synthesize does after; an error of classify that decompose did not
\* replace survives synthesize; synthesize records its own only on null.
C34_ErrorPrecedence ==
    /\ state.error = PyNone \/ state.error.t = "str"
    /\ DecomposerFellBack => ErrorStartsWith(DecompositionErrorPrefix)
    /\ (ClassifierRaised /\ ~DecomposerFellBack) => ErrorStartsWith(ClassificationErrorPrefix)
    /\ (~ClassifierRaised /\ ~DecomposerFellBack /\ state.error # PyNone)
          => (Ran("synthesize_answer") /\ ErrorStartsWith(SynthesisErrorPrefix))

\* Every stage failed: the error at the end is the decomposer's.
C34_Witness ==
    /\ pc = "END"
    /\ ClassifierRaised
    /\ replies.decompose_query[1].raised
    /\ replies.synthesize_answer[1].raised
    /\ ErrorStartsWith(DecompositionErrorPrefix)

\* graph.invoke raised, or the QueryResponse constructor refuses the final
\* state under either behaviour of the validation.
ResponseRaised ==
    \/ ~Ran("synthesize_answer")
    \/ ~StrFieldOk(state.final_answer, TRUE)
    \/ ~StrFieldOk(state.reasoning, TRUE)
    \/ ~StrListFieldOk(state.sub_queries, TRUE)

\* C35: when the graph run or the construction of the response raises,
\* process_query returns a response with sub_queries = [query], no sources
\* and an answer that reports the error.
C35_ErrorResponseShape ==
    (pc = "done" /\ ResponseRaised) =>
        /\ result.returned
        /\ result.response.sub_queries = <<state.query>>
        /\ result.response.sources = <<>>
        /\ StartsWith(result.response.answer, ErrorProcessingPrefix)

\* The answer of the synthesizer was null after two sub-queries had given
\* sources: the response has neither.
C35_Witness ==
    /\ pc = "done"
    /\ Ran("synthesize_answer")
    /\ state.final_answer = PyNone
    /\ PyLen(state.sub_queries) = 2
    /\ state.sources # <<>>
    /\ result.response.sub_queries = <<state.query>>
    /\ result.response.sources = <<>>

\* ------------------------------------------------ sequential adds that fail

\* Where a call of add_documents may fail: in the embedding model, in
\* index.add, in either write of _save_index.
AddFailures == {"none", "encode", "add", "write_index", "write_metadata"}

\* One call of add_documents on the store of a running process, run from
\* beginning to end or to the statement that raises.
SequentialAdd ==
    /\ \E chunks \in Batches, fail \in AddFailures :
          /\ Len(Vectors(vector_store)) + Len(chunks) <= MaxVectors
          /\ LET r == AddDocuments(vector_store, files, chunks, fail)
             IN  /\ vector_store' = r.self
                 /\ files' = r.files
                 /\ observed' = [op |-> "add", n |-> Len(chunks), fail |-> fail,
                                 raised |-> r.raised]
    /\ UNCHANGED writers
    /\ UNCHANGED agentVars

\* A store that started empty and is only added to.
AddSpec == PersistInit /\ [][SequentialAdd]_vars

\* C33: after any sequence of add_documents calls on a store that started
\* empty, failed calls included, the index holds as many vectors as
\* chunks_metadata has entries.
C33_VectorsMatchMetadata == Len(Vectors(vector_store)) = Len(vector_store.chunks_metadata)

\* A call whose save failed after two calls had succeeded: the three
\* vectors and the three entries are in memory.
C33_Witness ==
    /\ observed.op = "add"
    /\ observed.fail = "write_metadata"
    /\ observed.raised
    /\ Len(Vectors(vector_store)) = 3
    /\ Len(vector_store.chunks_metadata) = 3

\* ------------------------------------------- candidates without a chunk

\* The candidates of the observed search that have an entry in
\* chunks_metadata.
WithChunk(c) == c.idx >= 1 /\ c.idx <= observed.nmeta

\* C37: when the index holds more vectors than chunks_metadata has entries,
\* a search does not raise, and every pair it returns is the chunk at the
\* position of a candidate inside chunks_metadata; the candidates beyond it
\* are left out.
C37_PositionsBeyondMetadataSkipped ==
    (observed.op = "search" /\ observed.ntotal > observed.nmeta) =>
        LET hits == observed.result.hits
            inside == SelectSeq(observed.result.candidates, WithChunk)
        IN  /\ ~observed.result.raised
            /\ Len(hits) <= Len(inside)
            /\ \A i \in 1..Len(hits) :
                  \E j \in 1..Len(inside) :
                      /\ hits[i].chunk = vector_store.chunks_metadata[inside[j].idx]
                      /\ hits[i].score = inside[j].score

\* An index of two vectors over one entry: the best candidate has no
\* chunk, the search returns the other one.
C37_Witness ==
    /\ observed.op = "search"
    /\ observed.ntotal = 2 /\ observed.nmeta = 1
    /\ Len(observed.result.candidates) = 2
    /\ observed.result.candidates[1].idx = 2
    /\ Len(observed.result.hits) = 1
    /\ observed.result.hits[1].chunk = vector_store.chunks_metadata[1]

\* ------------------------------------------------------------ POST /query

\* get_stats, the entry the endpoint reads (lines 206-209 and 222-223).
GetStats(self) ==
    IF self.index = PyNone THEN [total_chunks |-> 0] ELSE [total_chunks |-> NTotal(self.index)]

\* What a request leaves: the HTTP status, the detail of an HTTPException,
\* and how many times agent.process_query was called.
HttpResult(status, detail, agent_calls) ==
    [status |-> status, detail |-> detail, agent_calls |-> agent_calls]

\* An ask_question whose handler of Exception also takes the HTTPException.
AskQuestion_NoReraise(stats, agent_outcome) ==
    IF stats.total_chunks = 0 THEN HttpResult(500, "Query processing failed", 0)
    ELSE IF agent_outcome = "raised" THEN HttpResult(500, "Query processing failed", 1)
    ELSE HttpResult(200, "", 1)

\* ask_question (lines 158-186): agent_outcome is how agent.process_query
\* ends if it is called.
AskQuestion(stats, agent_outcome) ==
    IF stats.total_chunks = 0 THEN HttpResult(400, "No documents loaded", 0)
    ELSE IF agent_outcome = "raised" THEN HttpResult(500, "Query processing failed", 1)
    ELSE HttpResult(200, "", 1)

AgentOutcomes == {"returned", "raised"}

\* One request to /query, served from beginning to end.
QueryCall ==
    /\ \E agent_outcome \in AgentOutcomes :
          observed' = [op |-> "query",
                       total_chunks |-> GetStats(vector_store).total_chunks,
                       agent_outcome |-> agent_outcome,
                       http |-> AskQuestion(GetStats(vector_store), agent_outcome)]
    /\ UNCHANGED <<vector_store, files, writers>>
    /\ UNCHANGED agentVars

ApiNext ==
    \/ Restart
    \/ AddCall
    \/ QueryCall

ApiSpec == StoreInit /\ [][ApiNext]_vars

\* C36: a request to /query on a store that reports zero chunks is answered
\* with HTTP 400 "No documents loaded" without a call of the agent; any other
\* request calls agent.process_query exactly once.
C36_QueryNeedsDocuments ==
    observed.op = "query" =>
        IF Len(Vectors(vector_store)) = 0
        THEN /\ observed.http.status = 400
             /\ observed.http.detail = "No documents loaded"
             /\ observed.http.agent_calls = 0
        ELSE /\ observed.http.agent_calls = 1
             /\ observed.http.status \in {200, 500}

\* A request on a store whose index exists and holds no vector.
C36_Witness ==
    /\ observed.op = "query"
    /\ vector_store.index # PyNone
    /\ Len(Vectors(vector_store)) = 0
    /\ observed.http.status = 400
    /\ observed.http.agent_calls = 0

\* ---------------------------------------------------------------------
\* DocumentProcessor.semantic_chunking (core/document_processor.py)
\* ---------------------------------------------------------------------

\* Bounds of the texts and of the configurations of the processor.
MaxTextWords == 5
MaxChunkSize == 3
MaxOverlap == 1

\* A whitespace-separated word of a text: its place in the text, and whether
\* its last character is one of . ! ?
Word(no, stop) == [no |-> no, stop |-> stop]

\* A text: its words, in order, and whether whitespace follows the last one.
Documents ==
    UNION {{[words |-> [i \in 1..n |-> Word(i, stops[i])], trailing_space |-> t] :
              stops \in [1..n -> BOOLEAN], t \in BOOLEAN} : n \in 0..MaxTextWords}

\* DocumentProcessor(chunk_size, chunk_overlap)
Processors ==
    {[chunk_size |-> s, chunk_overlap |-> o] : s \in 2..MaxChunkSize, o \in 0..MaxOverlap}

\* re.split(r'(?<=[.!?])\s+', text), each part stripped and split into its
\* words: the text is cut at every run of whitespace that follows a . ! or ?
\* so that whitespace after a last such word leaves an empty last part.
RECURSIVE SplitSentences(_, _, _)
SplitSentences(text, i, sentence) ==
    IF i > Len(text.words) THEN <<sentence>>
    ELSE IF text.words[i].stop /\ (i < Len(text.words) \/ text.trailing_space)
         THEN <<Append(sentence, text.words[i])>> \o SplitSentences(text, i + 1, <<>>)
         ELSE SplitSentences(text, i + 1, Append(sentence, text.words[i]))

\* words[-n:]
LastWords(words, n) ==
    IF n = 0 \/ n >= Len(words) THEN words
    ELSE SubSeq(words, Len(words) - n + 1, Len(words))

\* The loop of semantic_chunking over the sentences and the flush after it.
\* A chunk is modelled by the words of its text; its section and position
\* are left out.
RECURSIVE ChunkSentences(_, _, _, _, _)
ChunkSentences(self, sentences, i, chunks, current_chunk) ==
    IF i > Len(sentences)
    THEN IF current_chunk # <<>> THEN Append(chunks, current_chunk) ELSE chunks
    ELSE LET sentence == sentences[i]
             potential_chunk == current_chunk \o sentence
         IN  IF sentence = <<>>
             THEN ChunkSentences(self, sentences, i + 1, chunks, current_chunk)
             ELSE IF Len(potential_chunk) > self.chunk_size /\ current_chunk # <<>>
                  THEN ChunkSentences(self, sentences, i + 1,
                                      Append(chunks, current_chunk),
                                      LastWords(current_chunk, self.chunk_overlap) \o sentence)
                  ELSE ChunkSentences(self, sentences, i + 1, chunks, potential_chunk)

SemanticChunking(self, text) ==
    ChunkSentences(self, SplitSentences(text, 1, <<>>), 1, <<>>, <<>>)

\* A processor has been constructed and a text extracted for it.
ChunkInit ==
    /\ AgentIdle
    /\ vector_store = Construct(DefaultModel, NoFiles)
    /\ files = NoFiles
    /\ writers = [w \in Writers |-> IdleWriter]
    /\ \E self \in Processors, text \in Documents :
           observed = [op |-> "extract_text", self |-> self, text |-> text]

SemanticChunkingCall ==
    /\ observed.op = "extract_text"
    /\ \E chunks \in {SemanticChunking(observed.self, observed.text)} :
           observed' = [op |-> "semantic_chunking", self |-> observed.self,
                        text |-> observed.text, chunks |-> chunks]
    /\ UNCHANGED <<vector_store, files, writers>>
    /\ UNCHANGED agentVars

ChunkSpec == ChunkInit /\ [][SemanticChunkingCall]_vars

\* C31: every chunk that semantic_chunking produces has at most chunk_size
\* whitespace tokens, for every text.
C31_ChunksWithinBudget ==
    observed.op = "semantic_chunking" =>
        \A i \in 1..Len(observed.chunks) :
            Len(observed.chunks[i]) <= observed.self.chunk_size
====
